---- MODULE Spec2Model ----
(***************************************************************************)
(* Model of dmr_controller: the MediaController session (renderer/server   *)
(* selection and the playback operations), the SOAP transport of the       *)
(* AVTransport / RenderingControl service classes, the sweeps and the      *)
(* container listing of DeviceDiscovery, and the volume conversions of     *)
(* YamahaController.                                                       *)
(*                                                                         *)
(* Python strings whose characters the code inspects (lower(), "in",       *)
(* split('/'), startswith) are sequences of one-character strings; Python  *)
(* None is the record NoneV.                                               *)
(***************************************************************************)
EXTENDS Integers, Sequences, FiniteSets, TLC

VARIABLES
    current_renderer,   \* MediaController.current_renderer
    av_transport,       \* MediaController._av_transport
    rendering_control,  \* MediaController._rendering_control
    receiver,           \* MediaController.receiver
    current_server,     \* MediaController.current_server
    current_media_url,  \* MediaController.current_media_url
    lastOp,             \* the operation that ran last and its arguments
    result,             \* what that operation returned
    calls,              \* the service-client calls that operation issued, in order
    soap,               \* one invocation of a SOAP service method (transport level)
    discovery,          \* the DeviceDiscovery object and what its last sweep returned
    browsing,           \* one call of DeviceDiscovery.browse_media_server
    receiver_call,      \* one call of a YamahaController method
    threads,            \* a set_renderer call in progress and what a reader saw
    ui                  \* ControllerUI: its discovery thread and the threads it started

vars == <<current_renderer, av_transport, rendering_control, receiver,
          current_server, current_media_url, lastOp, result, calls, soap,
          discovery, browsing, receiver_call, threads, ui>>

session == <<current_renderer, av_transport, rendering_control, receiver,
             current_server, current_media_url, lastOp, result, calls>>

\* the objects beside the MediaController
library == <<discovery, browsing, receiver_call, threads, ui>>

----------------------------------------------------------------------------
(* Python values *)

NoneV == [tag |-> "None"]

Str(s) == [tag |-> "str", s |-> s]

\* Python truthiness of None / str values and of object references
Truthy(v) == IF v.tag = "None" THEN FALSE
             ELSE IF v.tag = "str" THEN v.s # <<>>
             ELSE TRUE

UpperCase == <<"A","B","C","D","E","F","G","H","I","J","K","L","M",
               "N","O","P","Q","R","S","T","U","V","W","X","Y","Z">>
LowerCase == <<"a","b","c","d","e","f","g","h","i","j","k","l","m",
               "n","o","p","q","r","s","t","u","v","w","x","y","z">>

LowerChar(c) == IF \E i \in 1..26 : UpperCase[i] = c
                THEN LowerCase[CHOOSE i \in 1..26 : UpperCase[i] = c]
                ELSE c

\* str.lower()
Lower(s) == [i \in 1..Len(s) |-> LowerChar(s[i])]

\* pat in s
Contains(s, pat) ==
    \E i \in 1..(Len(s) - Len(pat) + 1) : SubSeq(s, i, i + Len(pat) - 1) = pat

\* s.startswith(pat)
StartsWith(s, pat) == Len(s) >= Len(pat) /\ SubSeq(s, 1, Len(pat)) = pat

\* s.split('/')
RECURSIVE Split(_)
Split(s) ==
    IF \A i \in 1..Len(s) : s[i] # "/"
    THEN <<s>>
    ELSE LET i == CHOOSE k \in 1..Len(s) :
                      s[k] = "/" /\ \A j \in 1..(k - 1) : s[j] # "/"
         IN <<SubSeq(s, 1, i - 1)>> \o Split(SubSeq(s, i + 1, Len(s)))

----------------------------------------------------------------------------
(* Device descriptors handed to set_renderer *)

Loc_empty  == <<>>
Loc_nohost == <<"x">>
Loc_a      == <<"h","t","t","p",":","/","/","a","/","d">>
Loc_b      == <<"h","t","t","p",":","/","/","b","/","d">>
Loc_c      == <<"h","t","t","p",":","/","/","c">>

Locations == {Loc_empty, Loc_nohost, Loc_a, Loc_b, Loc_c}

Manufacturers == {Str(<<"Y","a","m","a","h","a">>),
                  Str(<<"Y","A","M","A","H","A"," ","C">>),
                  Str(<<"S","o","n","y">>),
                  Str(<<>>),
                  NoneV}

DeviceTypes == {Str(<<"M","e","d","i","a","R","e","n","d","e","r","e","r">>),
                Str(<<"I","n","v","a","l","i","d">>)}

Descriptors == [tag : {"dev"}, location : Locations,
                manufacturer : Manufacturers, device_type : DeviceTypes]

yamaha == <<"y","a","m","a","h","a">>

----------------------------------------------------------------------------
(* MediaController.set_renderer *)

\* YamahaController.__init__: the controller keeps the address it is given
YamahaController(ip_address) == [tag |-> "YamahaController", ip_address |-> ip_address]

AVTransportService(location) == [tag |-> "AVTransportService", location |-> location]

RenderingControlService(location) == [tag |-> "RenderingControlService", location |-> location]

\* The statement "self.services = [AVTransportService(location), ...]" sits in
\* the body of class AVTransportService: it reads the name AVTransportService
\* before the class statement has bound it, which raises NameError.
AVTransportService_class_body_raises == TRUE

\* _setup_av_transport: the bindings it leaves and the value it returns.
\* Every exception is caught inside and turned into False.
setup_av_transport(renderer, av, rc) ==
    IF renderer.location = <<>>
    THEN [av |-> av, rc |-> rc, ret |-> FALSE]
    ELSE IF AVTransportService_class_body_raises
    THEN [av |-> av, rc |-> rc, ret |-> FALSE]
    ELSE [av  |-> AVTransportService(renderer.location),
          rc  |-> RenderingControlService(renderer.location),
          ret |-> TRUE]

\* location.split('/')[2] raises IndexError when there are fewer than 3 parts
HasHost(location) == Len(Split(location)) >= 3
HostOf(location) == Split(location)[3]

IsVendor(manufacturer) == Contains(Lower(manufacturer.s), yamaha)

\* set_renderer in which the vendor branch does not return but goes on to the
\* generic set-up as well
set_renderer_fallthrough(d, cr, av, rc, rcv) ==
    IF d.device_type.tag = "None" \/ d.manufacturer.tag = "None"
    THEN [cr |-> NoneV, av |-> NoneV, rc |-> NoneV, rcv |-> NoneV, ret |-> FALSE]
    ELSE IF d.location = <<>>
    THEN [cr |-> cr, av |-> av, rc |-> rc, rcv |-> rcv, ret |-> FALSE]
    ELSE LET rcv1 == IF IsVendor(d.manufacturer)
                     THEN IF HasHost(d.location)
                          THEN YamahaController(HostOf(d.location))
                          ELSE NoneV
                     ELSE rcv
             s    == setup_av_transport(d, av, rc)
         IN [cr |-> d, av |-> s.av, rc |-> s.rc, rcv |-> rcv1, ret |-> TRUE]

\* set_renderer as a function of the descriptor and the bindings before the
\* call: the bindings after the call and the returned value.
set_renderer(d, cr, av, rc, rcv) ==
    IF d.device_type.tag = "None" \/ d.manufacturer.tag = "None"
    THEN \* .lower() on None raises; the outer handler clears every binding
         [cr |-> NoneV, av |-> NoneV, rc |-> NoneV, rcv |-> NoneV, ret |-> FALSE]
    ELSE IF d.location = <<>>
    THEN [cr |-> cr, av |-> av, rc |-> rc, rcv |-> rcv, ret |-> FALSE]
    ELSE IF IsVendor(d.manufacturer) /\ HasHost(d.location)
    THEN [cr |-> cr, av |-> av, rc |-> rc,
          rcv |-> YamahaController(HostOf(d.location)), ret |-> TRUE]
    ELSE LET rcv1 == IF IsVendor(d.manufacturer) THEN NoneV ELSE rcv
             s    == setup_av_transport(d, av, rc)
         IN [cr |-> d, av |-> s.av, rc |-> s.rc, rcv |-> rcv1, ret |-> TRUE]

SetRenderer ==
    \E d \in Descriptors :
        LET r == set_renderer(d, current_renderer, av_transport,
                              rendering_control, receiver)
        IN /\ current_renderer' = r.cr
           /\ av_transport' = r.av
           /\ rendering_control' = r.rc
           /\ receiver' = r.rcv
           /\ result' = IF r.ret THEN "True" ELSE "False"
           /\ lastOp' = [op |-> "set_renderer", arg |-> d]
           /\ calls' = <<>>
           /\ UNCHANGED <<current_server, current_media_url, soap, library>>

----------------------------------------------------------------------------
(* Service clients as MediaController sees them *)

\* A test double standing for a service (tests: Mock() services whose methods
\* are Mock() and may carry a side_effect)
MockService == [tag |-> "Mock"]

\* The methods an object bound to _av_transport / _rendering_control has.
\* In class AVTransportService the defs of Play, Pause, Stop, GetPositionInfo
\* and GetTransportInfo are nested in the body of SetAVTransportURI, so they
\* are local functions of that method and not attributes of the service.
HasMethod(client, m) ==
    \/ client.tag = "Mock"
    \/ client.tag = "AVTransportService" /\ m = "SetAVTransportURI"
    \/ client.tag = "RenderingControlService" /\ m = "SetVolume"
    \/ client.tag = "ServiceWrapper" /\ m = "Browse"

Outcomes == {"ok", "raise"}

Uri_http  == <<"h","t","t","p",":","/","/","m">>
Uri_https == <<"h","t","t","p","s",":","/","/","m">>
Uri_ftp   == <<"f","t","p",":","/","/","x">>
Uri_HTTP  == <<"H","T","T","P",":","/","/","m">>

\* CurrentURI.startswith(('http://', 'https://'))
ValidScheme(uri) ==
    \/ StartsWith(uri, <<"h","t","t","p",":","/","/">>)
    \/ StartsWith(uri, <<"h","t","t","p","s",":","/","/">>)

\* What a call of SetAVTransportURI on the bound client can do: a test double
\* does what its side_effect says; the service raises ValueError on a bad
\* scheme and otherwise succeeds or raises as its transport does.
SetUriOutcomes(client, uri) ==
    IF client.tag = "AVTransportService" /\ ~ValidScheme(uri.s)
    THEN {"raise"}
    ELSE Outcomes

MediaUrls == {NoneV, Str(<<>>), Str(Uri_http), Str(Uri_ftp)}

Volumes == {-10, 0, 50, 100, 150}

ObjectIds == {"0", "1"}

\* the server_url argument of browse_media_server
ServerUrls == {<<>>, Loc_b}

Max(a, b) == IF a >= b THEN a ELSE b
Min(a, b) == IF a <= b THEN a ELSE b

\* sep.join(parts)
RECURSIVE Join(_, _)
Join(parts, sep) ==
    IF Len(parts) = 0 THEN <<>>
    ELSE IF Len(parts) = 1 THEN parts[1]
    ELSE parts[1] \o sep \o Join(Tail(parts), sep)

\* '/'.join(url.split('/')[:3])
base_url(url) ==
    LET parts == Split(url)
    IN Join(SubSeq(parts, 1, Min(3, Len(parts))), <<"/">>)

----------------------------------------------------------------------------
(* MediaController playback operations: each is a function of the bindings,  *)
(* the arguments and the outcomes of the client calls it makes, giving the   *)
(* returned value, the calls issued and current_media_url afterwards.        *)

\* play that checks only the AVTransport client, not current_renderer
play_no_renderer_check(media_url, cr, av, cmu, o1, o2) ==
    IF ~Truthy(av)
    THEN [ret |-> "False", calls |-> <<>>, cmu |-> cmu]
    ELSE LET withUrl == Truthy(media_url)
             c1 == IF withUrl /\ HasMethod(av, "SetAVTransportURI")
                   THEN <<[m |-> "SetAVTransportURI", InstanceID |-> 0,
                           CurrentURI |-> media_url.s,
                           CurrentURIMetaData |-> <<>>, outcome |-> o1]>>
                   ELSE <<>>
             failed1 == withUrl /\ (~HasMethod(av, "SetAVTransportURI") \/ o1 = "raise")
             c2 == IF ~failed1 /\ HasMethod(av, "Play")
                   THEN <<[m |-> "Play", InstanceID |-> 0, Speed |-> <<"1">>,
                           outcome |-> o2]>>
                   ELSE <<>>
             failed2 == ~HasMethod(av, "Play") \/ o2 = "raise"
         IN [ret   |-> IF failed1 \/ failed2 THEN "False" ELSE "True",
             calls |-> c1 \o c2,
             cmu   |-> IF withUrl THEN media_url ELSE cmu]

\* set_volume whose handler lets the exception of the client call through
set_volume_uncaught(volume, cr, rc, o) ==
    IF ~Truthy(cr) \/ ~Truthy(rc)
    THEN [ret |-> "False", calls |-> <<>>]
    ELSE IF ~HasMethod(rc, "SetVolume")
    THEN [ret |-> "False", calls |-> <<>>]
    ELSE [ret   |-> IF o = "raise" THEN "raised" ELSE "True",
          calls |-> <<[m |-> "SetVolume", InstanceID |-> 0,
                       Channel |-> "Master",
                       DesiredVolume |-> Max(0, Min(100, volume)),
                       outcome |-> o]>>]

\* set_volume handing the requested level to the client as it is
set_volume_noclamp(volume, cr, rc, o) ==
    IF ~Truthy(cr) \/ ~Truthy(rc)
    THEN [ret |-> "False", calls |-> <<>>]
    ELSE IF ~HasMethod(rc, "SetVolume")
    THEN [ret |-> "False", calls |-> <<>>]
    ELSE [ret   |-> IF o = "raise" THEN "False" ELSE "True",
          calls |-> <<[m |-> "SetVolume", InstanceID |-> 0,
                       Channel |-> "Master",
                       DesiredVolume |-> volume,
                       outcome |-> o]>>]

\* play that goes on to Play after a failed SetAVTransportURI
play_through_failure(media_url, cr, av, cmu, o1, o2) ==
    IF ~Truthy(cr) \/ ~Truthy(av)
    THEN [ret |-> "False", calls |-> <<>>, cmu |-> cmu]
    ELSE LET withUrl == Truthy(media_url)
             c1 == IF withUrl /\ HasMethod(av, "SetAVTransportURI")
                   THEN <<[m |-> "SetAVTransportURI", InstanceID |-> 0,
                           CurrentURI |-> media_url.s,
                           CurrentURIMetaData |-> <<>>, outcome |-> o1]>>
                   ELSE <<>>
             c2 == IF HasMethod(av, "Play")
                   THEN <<[m |-> "Play", InstanceID |-> 0, Speed |-> <<"1">>,
                           outcome |-> o2]>>
                   ELSE <<>>
             failed2 == ~HasMethod(av, "Play") \/ o2 = "raise"
         IN [ret   |-> IF failed2 THEN "False" ELSE "True",
             calls |-> c1 \o c2,
             cmu   |-> IF withUrl THEN media_url ELSE cmu]

play(media_url, cr, av, cmu, o1, o2) ==
    IF ~Truthy(cr) \/ ~Truthy(av)
    THEN [ret |-> "False", calls |-> <<>>, cmu |-> cmu]
    ELSE LET withUrl == Truthy(media_url)
             c1 == IF withUrl /\ HasMethod(av, "SetAVTransportURI")
                   THEN <<[m |-> "SetAVTransportURI", InstanceID |-> 0,
                           CurrentURI |-> media_url.s,
                           CurrentURIMetaData |-> <<>>, outcome |-> o1]>>
                   ELSE <<>>
             failed1 == withUrl /\ (~HasMethod(av, "SetAVTransportURI") \/ o1 = "raise")
             c2 == IF ~failed1 /\ HasMethod(av, "Play")
                   THEN <<[m |-> "Play", InstanceID |-> 0, Speed |-> <<"1">>,
                           outcome |-> o2]>>
                   ELSE <<>>
             failed2 == ~HasMethod(av, "Play") \/ o2 = "raise"
         IN [ret   |-> IF failed1 \/ failed2 THEN "False" ELSE "True",
             calls |-> c1 \o c2,
             cmu   |-> IF withUrl THEN media_url ELSE cmu]

\* pause() and stop() have the same shape: one call of the named method
transport_op(m, cr, av, o) ==
    IF ~Truthy(cr) \/ ~Truthy(av)
    THEN [ret |-> "False", calls |-> <<>>]
    ELSE IF ~HasMethod(av, m)
    THEN [ret |-> "False", calls |-> <<>>]
    ELSE [ret   |-> IF o = "raise" THEN "False" ELSE "True",
          calls |-> <<[m |-> m, InstanceID |-> 0, outcome |-> o]>>]

pause(cr, av, o) == transport_op("Pause", cr, av, o)

stop(cr, av, o) == transport_op("Stop", cr, av, o)

set_volume(volume, cr, rc, o) ==
    IF ~Truthy(cr) \/ ~Truthy(rc)
    THEN [ret |-> "False", calls |-> <<>>]
    ELSE IF ~HasMethod(rc, "SetVolume")
    THEN [ret |-> "False", calls |-> <<>>]
    ELSE [ret   |-> IF o = "raise" THEN "False" ELSE "True",
          calls |-> <<[m |-> "SetVolume", InstanceID |-> 0,
                       Channel |-> "Master",
                       DesiredVolume |-> Max(0, Min(100, volume)),
                       outcome |-> o]>>]

\* get_position_info() and get_transport_info(): what the client returns, or
\* None when there is no renderer or the call raises
info_op(m, cr, av, o) ==
    IF ~Truthy(cr) \/ ~Truthy(av)
    THEN [ret |-> "None", calls |-> <<>>]
    ELSE IF ~HasMethod(av, m)
    THEN [ret |-> "None", calls |-> <<>>]
    ELSE [ret   |-> IF o = "raise" THEN "None" ELSE "dict",
          calls |-> <<[m |-> m, InstanceID |-> 0, outcome |-> o]>>]

get_position_info(cr, av, o) == info_op("GetPositionInfo", cr, av, o)

get_transport_info(cr, av, o) == info_op("GetTransportInfo", cr, av, o)

BrowseCall(service, object_id, flag, count, o) ==
    [m |-> "Browse", on |-> service, ObjectID |-> object_id, BrowseFlag |-> flag,
     RequestedCount |-> count, outcome |-> o]

\* DeviceDiscovery.browse_media_server as far as its requests go: one Browse of
\* the children and, below the root, one BrowseMetadata whose failure is
\* tolerated; a failure of the first Browse gives the empty list.
discovery_browse(server, object_id, o1, o2) ==
    IF ~HasMethod(server.service, "Browse")
    THEN [ret |-> "[]", calls |-> <<>>]
    ELSE LET c1 == <<BrowseCall(server.service, object_id, "BrowseDirectChildren", 1000, o1)>>
             c2 == IF o1 = "ok" /\ object_id # "0"
                   THEN <<BrowseCall(server.service, object_id, "BrowseMetadata", 1, o2)>>
                   ELSE <<>>
         IN [ret |-> IF o1 = "raise" THEN "[]" ELSE "list", calls |-> c1 \o c2]

browse_media_server(server_url, object_id, cs, o1, o2) ==
    IF ~Truthy(cs)
    THEN [ret |-> "[]", calls |-> <<>>]
    ELSE discovery_browse(cs, object_id, o1, o2)

browse_container(container_id, cs, o) ==
    IF ~Truthy(cs)
    THEN [ret |-> "[]", calls |-> <<>>]
    ELSE IF ~HasMethod(cs.service, "Browse")
    THEN [ret |-> "[]", calls |-> <<>>]
    ELSE [ret   |-> IF o = "raise" THEN "[]" ELSE "list",
          calls |-> <<BrowseCall(cs.service, container_id, "BrowseDirectChildren",
                                 1000, o)>>]

----------------------------------------------------------------------------
(* The operations as actions of the session *)

Done(op, arg, r) ==
    /\ lastOp' = [op |-> op, arg |-> arg]
    /\ result' = r.ret
    /\ calls' = r.calls
    /\ UNCHANGED <<current_renderer, av_transport, rendering_control,
                   receiver, current_server, soap, library>>

Play ==
    \E media_url \in MediaUrls, o1 \in Outcomes, o2 \in Outcomes :
        LET r == play(media_url, current_renderer, av_transport,
                      current_media_url, o1, o2)
        IN /\ Truthy(media_url) => o1 \in SetUriOutcomes(av_transport, media_url)
           /\ current_media_url' = r.cmu
           /\ Done("play", media_url, r)

Pause ==
    \E o \in Outcomes :
        /\ Done("pause", NoneV, pause(current_renderer, av_transport, o))
        /\ UNCHANGED current_media_url

Stop ==
    \E o \in Outcomes :
        /\ Done("stop", NoneV, stop(current_renderer, av_transport, o))
        /\ UNCHANGED current_media_url

SetVolume ==
    \E volume \in Volumes, o \in Outcomes :
        /\ Done("set_volume", volume,
                set_volume(volume, current_renderer, rendering_control, o))
        /\ UNCHANGED current_media_url

GetPositionInfo ==
    \E o \in Outcomes :
        /\ Done("get_position_info", NoneV,
                get_position_info(current_renderer, av_transport, o))
        /\ UNCHANGED current_media_url

GetTransportInfo ==
    \E o \in Outcomes :
        /\ Done("get_transport_info", NoneV,
                get_transport_info(current_renderer, av_transport, o))
        /\ UNCHANGED current_media_url

\* object_id is "0" when the caller gives none (given = FALSE)
BrowseMediaServer ==
    \E server_url \in ServerUrls, given \in BOOLEAN, id \in ObjectIds,
       o1 \in Outcomes, o2 \in Outcomes :
        LET object_id == IF given THEN id ELSE "0"
        IN /\ ~given => id = "0"
           /\ Done("browse_media_server",
                   [server_url |-> server_url, given |-> given, object_id |-> object_id],
                   browse_media_server(server_url, object_id, current_server, o1, o2))
           /\ UNCHANGED current_media_url

BrowseContainer ==
    \E container_id \in ObjectIds, o \in Outcomes :
        /\ Done("browse_container", container_id,
                browse_container(container_id, current_server, o))
        /\ UNCHANGED current_media_url

Operation ==
    \/ Play
    \/ Pause
    \/ Stop
    \/ SetVolume
    \/ GetPositionInfo
    \/ GetTransportInfo
    \/ BrowseMediaServer
    \/ BrowseContainer

----------------------------------------------------------------------------
(* DeviceDiscovery: sweeps and their classification *)

\* the object after __init__; ret is what discover_devices returned last and
\* sweep what upnpclient.discover() did during that call
DeviceDiscovery ==
    [devices |-> <<>>, media_renderers |-> <<>>, media_servers |-> <<>>,
     ret |-> <<>>, sweep |-> NoneV]

Device(device_type, location, friendly_name) ==
    [device_type |-> device_type, location |-> location,
     friendly_name |-> friendly_name]

Type_MediaRenderer == <<"M","e","d","i","a","R","e","n","d","e","r","e","r">>
Type_MediaServer   == <<"M","e","d","i","a","S","e","r","v","e","r">>
Type_MEDIASERVER   == <<"M","E","D","I","A","S","E","R","V","E","R">>
Type_Light         == <<"L","i","g","h","t">>

mediarenderer == <<"m","e","d","i","a","r","e","n","d","e","r","e","r">>
mediaserver   == <<"m","e","d","i","a","s","e","r","v","e","r">>

\* The devices a sweep can find: renderers, servers (two of them at one
\* location under different names), a device of another kind, and an object
\* whose device_type is None (device.device_type.lower() raises on it)
RawDevices ==
    { Device(Str(Type_MediaRenderer), Loc_a, "n1"),
      Device(Str(Type_MediaRenderer), Loc_a, "n2"),
      Device(Str(Type_MediaServer), Loc_a, "n1"),
      Device(Str(Type_MEDIASERVER), Loc_a, "n2"),
      Device(Str(Type_MediaServer), Loc_b, "n1"),
      Device(Str(Type_Light), Loc_b, "n1"),
      Device(NoneV, Loc_b, "n2") }

MaxSweep == 2

\* What upnpclient.discover() does: returns a list of devices, or raises
Sweeps ==
    { [kind |-> "ok", devices |-> ds] :
          ds \in UNION { [1..n -> RawDevices] : n \in 0..MaxSweep } }
    \cup { [kind |-> "raise", type |-> t] : t \in {"socket.error", "Exception"} }

\* _categorize_devices that keeps every server it meets
RECURSIVE categorize_nodedup(_, _, _, _, _)
categorize_nodedup(devices, i, renderers, servers, seen) ==
    IF i > Len(devices)
    THEN [media_renderers |-> renderers, media_servers |-> servers, raised |-> FALSE]
    ELSE LET device == devices[i]
         IN IF device.device_type = NoneV
            THEN [media_renderers |-> renderers, media_servers |-> servers,
                  raised |-> TRUE]
            ELSE LET device_type == Lower(device.device_type.s)
                 IN IF Contains(device_type, mediarenderer)
                    THEN categorize_nodedup(devices, i + 1, Append(renderers, device),
                                            servers, seen)
                    ELSE IF Contains(device_type, mediaserver)
                    THEN categorize_nodedup(devices, i + 1, renderers,
                                            Append(servers, device),
                                            seen \cup {device.location})
                    ELSE categorize_nodedup(devices, i + 1, renderers, servers, seen)

\* The loop of _categorize_devices from device i on; renderers, servers and
\* seen are media_renderers, media_servers and seen_server_locations so far.
\* An exception leaves the two lists as far as they were filled.
RECURSIVE categorize(_, _, _, _, _)
categorize(devices, i, renderers, servers, seen) ==
    IF i > Len(devices)
    THEN [media_renderers |-> renderers, media_servers |-> servers, raised |-> FALSE]
    ELSE LET device == devices[i]
         IN IF device.device_type = NoneV
            THEN [media_renderers |-> renderers, media_servers |-> servers,
                  raised |-> TRUE]
            ELSE LET device_type == Lower(device.device_type.s)
                 IN IF Contains(device_type, mediarenderer)
                    THEN categorize(devices, i + 1, Append(renderers, device),
                                    servers, seen)
                    ELSE IF Contains(device_type, mediaserver)
                    THEN IF device.location \notin seen
                         THEN categorize(devices, i + 1, renderers,
                                         Append(servers, device),
                                         seen \cup {device.location})
                         ELSE categorize(devices, i + 1, renderers, servers, seen)
                    ELSE categorize(devices, i + 1, renderers, servers, seen)

\* _categorize_devices: both lists are emptied, then filled from self.devices
categorize_devices(devices) == categorize(devices, 1, <<>>, <<>>, {})

\* discover_devices that empties self.devices when upnpclient.discover() raises
discover_devices_reset(self, sweep) ==
    IF sweep.kind = "raise"
    THEN [self EXCEPT !.devices = <<>>, !.ret = <<>>, !.sweep = sweep]
    ELSE LET c == categorize_devices(sweep.devices)
         IN [devices |-> sweep.devices,
             media_renderers |-> c.media_renderers,
             media_servers |-> c.media_servers,
             ret |-> IF c.raised THEN <<>> ELSE sweep.devices,
             sweep |-> sweep]

\* discover_devices: an exception of upnpclient.discover() leaves the object
\* as it was; otherwise self.devices is replaced and classified.  Either
\* exception handler returns [].
discover_devices(self, sweep) ==
    IF sweep.kind = "raise"
    THEN [self EXCEPT !.ret = <<>>, !.sweep = sweep]
    ELSE LET c == categorize_devices(sweep.devices)
         IN [devices |-> sweep.devices,
             media_renderers |-> c.media_renderers,
             media_servers |-> c.media_servers,
             ret |-> IF c.raised THEN <<>> ELSE sweep.devices,
             sweep |-> sweep]

get_media_renderers(self) == self.media_renderers

get_media_servers(self) == self.media_servers

DiscoverDevices ==
    \E sweep \in Sweeps :
        /\ discovery' = discover_devices(discovery, sweep)
        /\ UNCHANGED <<session, soap, browsing, receiver_call, threads, ui>>

----------------------------------------------------------------------------
(* DeviceDiscovery.browse_media_server: the listing of one container         *)
(*                                                                           *)
(* A DIDL-Lite document is the sequence of its container and item elements   *)
(* in document order.  A title is the element's <title> child with the       *)
(* namespace it is in: the code looks for it in the DIDL-Lite namespace.     *)

\* s.split(sep)
RECURSIVE SplitOn(_, _)
SplitOn(s, sep) ==
    IF \E i \in 1..Len(s) : s[i] = sep
    THEN LET i == CHOOSE k \in 1..Len(s) :
                      s[k] = sep /\ \A j \in 1..(k - 1) : s[j] # sep
         IN <<SubSeq(s, 1, i - 1)>> \o SplitOn(SubSeq(s, i + 1, Len(s)), sep)
    ELSE <<s>>

Title(ns, text) == [ns |-> ns, text |-> text]

Res(protocolInfo, duration, text) ==
    [protocolInfo |-> protocolInfo, duration |-> duration, text |-> text]

ContainerEl(id, parentID, title, childCount) ==
    [el |-> "container", id |-> id, parentID |-> parentID, title |-> title,
     childCount |-> childCount]

ItemEl(id, title, res) == [el |-> "item", id |-> id, title |-> title, res |-> res]

ProtocolInfo_audio == <<"h",":","*",":","a",":","*">>
ProtocolInfo_short == <<"h",":","a">>

\* The elements of the responses: containers with and without a title, items
\* with title and res, without res, without title, with the title in the
\* dc namespace, and with a res whose protocolInfo is absent or short
Elements ==
    { ContainerEl("2", Str("1"), Title("didl", "Albums"), "2"),
      ContainerEl("5", Str("1"), NoneV, ""),
      ItemEl("3", Title("didl", "Song"), Res(ProtocolInfo_audio, "00:03:45", "u3")),
      ItemEl("4", Title("didl", "Song"), NoneV),
      ItemEl("6", NoneV, Res(ProtocolInfo_audio, "", "u6")),
      ItemEl("7", Title("dc", "Song"), Res(ProtocolInfo_audio, "", "u7")),
      ItemEl("8", Title("didl", "Song"), Res(<<>>, "", "u8")),
      ItemEl("9", Title("didl", "Song"), Res(ProtocolInfo_short, "", "u9")) }

MaxChildren == 2

\* What Browse gives: it raises, or returns a Result that is no XML, or a
\* Result that is a DIDL-Lite document
Raises == [kind |-> "raise"]
NotXml == [kind |-> "notxml"]
Didl(elements) == [kind |-> "didl", elements |-> elements]

ChildrenResponses ==
    {Raises, NotXml}
    \cup { Didl(es) : es \in UNION { [1..n -> Elements] : n \in 0..MaxChildren } }

MetadataResponses ==
    { Raises, NotXml, Didl(<<>>),
      Didl(<<ContainerEl("1", Str("0"), Title("didl", "Music"), "")>>),
      Didl(<<ContainerEl("1", Str("7"), Title("didl", "Music"), "")>>),
      Didl(<<ContainerEl("1", NoneV, Title("didl", "Music"), "")>>),
      Didl(<<ItemEl("1", Title("didl", "Song"), NoneV),
             ContainerEl("1", Str("5"), Title("didl", "Music"), "")>>) }

\* element.find(".//{urn:schemas-upnp-org:metadata-1-0/DIDL-Lite/}title")
find_title(element) ==
    IF element.title # NoneV /\ element.title.ns = "didl"
    THEN element.title ELSE NoneV

\* didl.findall(".//{...}container") / findall(".//{...}item"): document order
findall(didl, tag) == SelectSeq(didl.elements, LAMBDA e : e.el = tag)

\* the parent id of lines 125-142: "0" unless the metadata document has a
\* container, then its parentID attribute (default "0")
parent_id_of(metadata) ==
    IF metadata.kind # "didl" THEN "0"
    ELSE LET cs == findall(metadata, "container")
         IN IF cs = <<>> THEN "0"
            ELSE IF cs[1].parentID = NoneV THEN "0" ELSE cs[1].parentID.s

ParentEntry(parent_id) ==
    [id |-> parent_id, title |-> <<"folder", "..">>, type |-> "container",
     is_parent |-> TRUE]

\* the entry of a container that has a title
ContainerEntry(container) ==
    [id |-> container.id,
     title |-> <<"folder", find_title(container).text,
                 IF container.childCount # "" THEN container.childCount ELSE "">>,
     type |-> "container", is_parent |-> FALSE,
     child_count |-> container.childCount]

\* the entry of an item that has a title and a res; type is
\* res.get('protocolInfo', '').split(':')[2]
ItemEntry(item) ==
    [id |-> item.id,
     title |-> <<find_title(item).text, "", item.res.duration>>,
     uri |-> item.res.text,
     type |-> SplitOn(item.res.protocolInfo, ":")[3],
     is_parent |-> FALSE, size |-> "", duration |-> item.res.duration]

\* the [2] of the split raises IndexError
ItemRaises(item) == Len(SplitOn(item.res.protocolInfo, ":")) < 3

Listed(item) == find_title(item) # NoneV /\ item.res # NoneV

\* [Op(e) for e in seq]
MapSeq(seq, Op(_)) == [i \in 1..Len(seq) |-> Op(seq[i])]

\* browse_media_server that asks for the metadata of the root as well
browse_metadata_always(has_content_directory, object_id, children, metadata) ==
    IF ~has_content_directory
    THEN [ret |-> <<>>, log |-> <<>>]
    ELSE LET c1 == <<[ObjectID |-> object_id, BrowseFlag |-> "BrowseDirectChildren",
                      RequestedCount |-> 1000]>>
             c2 == <<[ObjectID |-> object_id, BrowseFlag |-> "BrowseMetadata",
                      RequestedCount |-> 1]>>
         IN IF children.kind = "raise"
            THEN [ret |-> <<>>, log |-> c1]
            ELSE IF children.kind = "notxml"
            THEN [ret |-> <<>>, log |-> c1 \o c2]
            ELSE LET parent == <<ParentEntry(parent_id_of(metadata))>>
                     containers == SelectSeq(findall(children, "container"),
                                       LAMBDA e : find_title(e) # NoneV)
                     media_items == SelectSeq(findall(children, "item"), Listed)
                 IN IF \E i \in 1..Len(media_items) : ItemRaises(media_items[i])
                    THEN [ret |-> <<>>, log |-> c1 \o c2]
                    ELSE [ret |-> parent \o MapSeq(containers, ContainerEntry)
                                     \o MapSeq(media_items, ItemEntry),
                          log |-> c1 \o c2]

\* browse_media_server that lists every item, with or without title and res
browse_items_unfiltered(has_content_directory, object_id, children, metadata) ==
    IF ~has_content_directory
    THEN [ret |-> <<>>, log |-> <<>>]
    ELSE LET c1 == <<[ObjectID |-> object_id, BrowseFlag |-> "BrowseDirectChildren",
                      RequestedCount |-> 1000]>>
             c2 == IF object_id # "0"
                   THEN <<[ObjectID |-> object_id, BrowseFlag |-> "BrowseMetadata",
                           RequestedCount |-> 1]>>
                   ELSE <<>>
         IN IF children.kind = "raise"
            THEN [ret |-> <<>>, log |-> c1]
            ELSE IF children.kind = "notxml"
            THEN [ret |-> <<>>, log |-> c1 \o c2]
            ELSE LET parent == IF object_id # "0"
                               THEN <<ParentEntry(parent_id_of(metadata))>>
                               ELSE <<>>
                     containers == SelectSeq(findall(children, "container"),
                                       LAMBDA e : find_title(e) # NoneV)
                     media_items == findall(children, "item")
                     stub(e) == [id |-> e.id, is_parent |-> FALSE]
                 IN [ret |-> parent \o MapSeq(containers, ContainerEntry)
                                \o MapSeq(media_items, stub),
                     log |-> c1 \o c2]

\* DeviceDiscovery.browse_media_server(server, object_id).  children and
\* metadata are what the two Browse calls give; log is the Browse calls made.
\* No ContentDirectory service: [].  Browse of the children (an exception
\* gives []); below the root, Browse of the metadata inside its own try; the
\* children document is parsed (an exception gives []); then the parent
\* entry, the titled containers, the items with title and res.
DD_browse_media_server(has_content_directory, object_id, children, metadata) ==
    IF ~has_content_directory
    THEN [ret |-> <<>>, log |-> <<>>]
    ELSE LET c1 == <<[ObjectID |-> object_id, BrowseFlag |-> "BrowseDirectChildren",
                      RequestedCount |-> 1000]>>
             c2 == IF object_id # "0"
                   THEN <<[ObjectID |-> object_id, BrowseFlag |-> "BrowseMetadata",
                           RequestedCount |-> 1]>>
                   ELSE <<>>
         IN IF children.kind = "raise"
            THEN [ret |-> <<>>, log |-> c1]
            ELSE IF children.kind = "notxml"
            THEN [ret |-> <<>>, log |-> c1 \o c2]
            ELSE LET parent == IF object_id # "0"
                               THEN <<ParentEntry(parent_id_of(metadata))>>
                               ELSE <<>>
                     containers == SelectSeq(findall(children, "container"),
                                       LAMBDA e : find_title(e) # NoneV)
                     media_items == SelectSeq(findall(children, "item"), Listed)
                 IN IF \E i \in 1..Len(media_items) : ItemRaises(media_items[i])
                    THEN [ret |-> <<>>, log |-> c1 \o c2]
                    ELSE [ret |-> parent \o MapSeq(containers, ContainerEntry)
                                     \o MapSeq(media_items, ItemEntry),
                          log |-> c1 \o c2]

BrowseServer ==
    /\ browsing = NoneV
    /\ \E has_content_directory \in BOOLEAN, object_id \in ObjectIds,
          children \in ChildrenResponses, metadata \in MetadataResponses :
          LET r == DD_browse_media_server(has_content_directory, object_id,
                                          children, metadata)
          IN browsing' = [tag |-> "browse",
                          has_content_directory |-> has_content_directory,
                          object_id |-> object_id, children |-> children,
                          metadata |-> metadata, ret |-> r.ret, log |-> r.log]
    /\ UNCHANGED <<session, soap, discovery, receiver_call, threads, ui>>

\* browse_media_server has returned; DeviceDiscovery keeps nothing of the call
BrowseReturn ==
    /\ browsing # NoneV
    /\ browsing' = NoneV
    /\ UNCHANGED <<session, soap, discovery, receiver_call, threads, ui>>

NextBrowse == BrowseServer \/ BrowseReturn

----------------------------------------------------------------------------
(* MediaController.set_server *)

Loc_rygel == <<"h","t","t","p",":","/","/","R","y","g","e","l","/","d">>

\* what is passed to set_server: a dict or object with a location
Server(location) == [tag |-> "dev", location |-> location]

ServerDescriptors == {Server(Loc_empty), Server(Loc_a), Server(Loc_rygel)}

Type_CONTENTDIRECTORY ==
    <<"C","O","N","T","E","N","T","D","I","R","E","C","T","O","R","Y">>

contentdirectory ==
    <<"c","o","n","t","e","n","t","d","i","r","e","c","t","o","r","y">>

rygel == <<"r","y","g","e","l">>

\* 'urn:schemas-upnp-org:device:MediaServer:1'
Default_device_type ==
    <<"u","r","n",":","s","c","h","e","m","a","s","-","u","p","n","p","-",
      "o","r","g",":","d","e","v","i","c","e",":">> \o Type_MediaServer \o <<":","1">>

ControlURL_cd == <<"/","c","d">>

Rygel_path ==
    <<"/","C","o","n","t","r","o","l","/","M","e","d","i","a","E","x","p","o","r","t",
      "/","R","y","g","e","l","C","o","n","t","e","n","t","D","i","r","e","c","t","o","r","y">>

ContentDirectory_path ==
    <<"/","M","e","d","i","a","S","e","r","v","e","r","/","C","o","n","t","e","n","t",
      "D","i","r","e","c","t","o","r","y","/","C","o","n","t","r","o","l">>

\* an element that the description does not have (NoneV: it is there, empty)
Absent == [tag |-> "absent"]

\* A description with a device element: its deviceType, and the controlURL of
\* its ContentDirectory service (Absent: no such service or no controlURL)
Description(deviceType, controlURL) ==
    [kind |-> "device", deviceType |-> deviceType, controlURL |-> controlURL]

\* What the GET of the location gives: the request or the parsing raises, a
\* document without a device element, or a description
DescriptionResponses ==
    { Raises, [kind |-> "nodevice"],
      Description(Str(Type_MediaServer), Str(ControlURL_cd)),
      Description(Str(Type_MediaServer), Absent),
      Description(Str(Type_MediaServer), NoneV),
      Description(Str(Type_CONTENTDIRECTORY), Str(ControlURL_cd)),
      Description(Str(Type_MediaRenderer), Str(ControlURL_cd)),
      Description(Str(Type_MediaRenderer), Absent),
      Description(NoneV, Str(ControlURL_cd)),
      Description(Absent, Absent) }

\* _get_device_description: None on any exception and on a document without
\* a device; device_type defaults to MediaServer:1 when there is no deviceType
\* element and is None when the element is empty
get_device_description(resp) ==
    IF resp.kind # "device" THEN NoneV
    ELSE [tag |-> "info",
          device_type |-> IF resp.deviceType = Absent
                          THEN Str(Default_device_type) ELSE resp.deviceType,
          content_directory |->
              IF resp.controlURL = Absent THEN NoneV
              ELSE [control_url |-> IF resp.controlURL = NoneV THEN <<>>
                                    ELSE resp.controlURL.s]]

\* ServiceWrapper.__init__: the control URL from the description, else the
\* Rygel path when the location contains "rygel", else the generic path
ServiceWrapper(location, content_directory) ==
    [tag |-> "ServiceWrapper", location |-> location,
     control_url |->
         IF content_directory # NoneV /\ content_directory.control_url # <<>>
         THEN base_url(location) \o content_directory.control_url
         ELSE IF Contains(Lower(location), rygel)
         THEN base_url(location) \o Rygel_path
         ELSE base_url(location) \o ContentDirectory_path]

DeviceWrapper(location, device_info) ==
    [tag |-> "DeviceWrapper", device_type |-> device_info.device_type,
     location |-> location,
     service |-> ServiceWrapper(location, device_info.content_directory)]

DeviceInfo_a ==
    get_device_description(Description(Str(Type_MediaServer), Str(ControlURL_cd)))

\* set_server that takes a device of any type
set_server_any_type(server, cs, resp) ==
    IF server.location = <<>>
    THEN [cs |-> cs, ret |-> FALSE]
    ELSE LET device_info == get_device_description(resp)
         IN IF device_info = NoneV
            THEN [cs |-> cs, ret |-> FALSE]
            ELSE IF device_info.device_type = NoneV
            THEN [cs |-> cs, ret |-> FALSE]
            ELSE [cs |-> DeviceWrapper(server.location, device_info), ret |-> TRUE]

\* set_server that drops the selected server when it fails
set_server_clears(server, cs, resp) ==
    IF server.location = <<>>
    THEN [cs |-> NoneV, ret |-> FALSE]
    ELSE LET device_info == get_device_description(resp)
         IN IF device_info = NoneV
            THEN [cs |-> NoneV, ret |-> FALSE]
            ELSE IF device_info.device_type = NoneV
            THEN [cs |-> NoneV, ret |-> FALSE]
            ELSE LET device_type == Lower(device_info.device_type.s)
                 IN IF Contains(device_type, mediaserver)
                        \/ Contains(device_type, contentdirectory)
                    THEN [cs |-> DeviceWrapper(server.location, device_info),
                          ret |-> TRUE]
                    ELSE [cs |-> NoneV, ret |-> FALSE]

\* set_server(server) with cs the current_server before the call and resp
\* what the GET of the description gives: the new current_server and the
\* value returned.  device_info['device_type'].lower() raises on None, which
\* the handler turns into False.
set_server(server, cs, resp) ==
    IF server.location = <<>>
    THEN [cs |-> cs, ret |-> FALSE]
    ELSE LET device_info == get_device_description(resp)
         IN IF device_info = NoneV
            THEN [cs |-> cs, ret |-> FALSE]
            ELSE IF device_info.device_type = NoneV
            THEN [cs |-> cs, ret |-> FALSE]
            ELSE LET device_type == Lower(device_info.device_type.s)
                 IN IF Contains(device_type, mediaserver)
                        \/ Contains(device_type, contentdirectory)
                    THEN [cs |-> DeviceWrapper(server.location, device_info),
                          ret |-> TRUE]
                    ELSE [cs |-> cs, ret |-> FALSE]

SetServer ==
    \E server \in ServerDescriptors, resp \in DescriptionResponses :
        LET r == set_server(server, current_server, resp)
        IN /\ current_server' = r.cs
           /\ result' = IF r.ret THEN "True" ELSE "False"
           /\ lastOp' = [op |-> "set_server", arg |-> server, description |-> resp]
           /\ calls' = <<>>
           /\ UNCHANGED <<current_renderer, av_transport, rendering_control,
                          receiver, current_media_url, soap, library>>

----------------------------------------------------------------------------
(* Python float arithmetic (IEEE 754 binary64, round to nearest, ties to     *)
(* even) for the volume conversions of YamahaController.                     *)
(*                                                                           *)
(* A magnitude is a fixed-point binary number of Limbs digits in base        *)
(* 2^LimbBits, least significant first, the lowest FracLimbs of them behind  *)
(* the binary point.  Every float the conversions meet is below 2^LimbBits   *)
(* and a multiple of 2^-(FracLimbs * LimbBits), so the arithmetic on         *)
(* magnitudes is exact and RoundFloat is the only place where precision is   *)
(* lost, as in the hardware.                                                 *)

Precision == 53
LimbBits == 16
FracLimbs == 4
Limbs == FracLimbs + 1

Pow2(n) == 2 ^ n
Base == Pow2(LimbBits)
Width == Limbs * LimbBits

\* the remainder left after k digits of the fraction r/den
RECURSIVE Rem(_, _, _)
Rem(r, den, k) == IF k = 0 THEN r ELSE (Base * Rem(r, den, k - 1)) % den

\* num/den (naturals) cut off after FracLimbs digits, and whether anything
\* was cut off
DivBits(num, den) ==
    LET q  == num \div den
        r0 == num % den
    IN [mag    |-> [i \in 1..Limbs |->
                       IF i > FracLimbs THEN q
                       ELSE (Base * Rem(r0, den, FracLimbs - i)) \div den],
        sticky |-> Rem(r0, den, FracLimbs) # 0]

NatBits(n) == DivBits(n, 1).mag

RECURSIVE CarryMul(_, _, _)
CarryMul(x, c, i) ==
    IF i = 0 THEN 0 ELSE (x[i] * c + CarryMul(x, c, i - 1)) \div Base

\* x * c for a natural c
MulBits(x, c) ==
    [i \in 1..Limbs |-> (x[i] * c + CarryMul(x, c, i - 1)) % Base]

RECURSIVE CarryAdd(_, _, _)
CarryAdd(x, y, i) ==
    IF i = 0 THEN 0 ELSE (x[i] + y[i] + CarryAdd(x, y, i - 1)) \div Base

AddBits(x, y) ==
    [i \in 1..Limbs |-> (x[i] + y[i] + CarryAdd(x, y, i - 1)) % Base]

RECURSIVE Borrow(_, _, _)
Borrow(x, y, i) ==
    IF i = 0 THEN 0
    ELSE IF x[i] - y[i] - Borrow(x, y, i - 1) < 0 THEN 1 ELSE 0

\* x - y for x >= y
SubBits(x, y) ==
    [i \in 1..Limbs |-> (x[i] - y[i] - Borrow(x, y, i - 1) + Base) % Base]

\* x >= y
GreaterEq(x, y) ==
    \A i \in 1..Limbs :
        (x[i] < y[i]) => \E j \in (i + 1)..Limbs : x[j] > y[j]

\* bit i of x, bit 1 the least significant
Bit(x, i) == (x[(i - 1) \div LimbBits + 1] \div Pow2((i - 1) % LimbBits)) % 2

\* the index of the leading 1 (0 for zero)
Top(x) ==
    IF \A i \in 1..Limbs : x[i] = 0 THEN 0
    ELSE CHOOSE i \in 1..Width :
             Bit(x, i) = 1 /\ \A j \in (i + 1)..Width : Bit(x, j) = 0

\* x with the bits below bit l cleared
Trunc(x, l) ==
    [k \in 1..Limbs |->
        IF k * LimbBits < l THEN 0
        ELSE IF (k - 1) * LimbBits + 1 >= l THEN x[k]
        ELSE x[k] - (x[k] % Pow2((l - 1) % LimbBits))]

\* one unit of bit l
Unit(l) ==
    [k \in 1..Limbs |->
        IF k = (l - 1) \div LimbBits + 1 THEN Pow2((l - 1) % LimbBits) ELSE 0]

\* The nearest magnitude with Precision significant bits, ties to even;
\* sticky says that the exact value is a little above x
RoundFloat(x, sticky) ==
    LET h == Top(x)
        l == h - (Precision - 1)
    IN IF h = 0 \/ l <= 1 THEN x
       ELSE LET guard == Bit(x, l - 1)
                rest  == sticky \/ \E i \in 1..(l - 2) : Bit(x, i) = 1
            IN IF guard = 1 /\ (rest \/ Bit(x, l) = 1)
               THEN AddBits(Trunc(x, l), Unit(l))
               ELSE Trunc(x, l)

Float(neg, mag) == [neg |-> neg, mag |-> mag]

Abs(n) == IF n < 0 THEN 0 - n ELSE n

\* a / b for ints a and b > 0 (true division, correctly rounded)
TrueDiv(a, b) ==
    LET d == DivBits(Abs(a), b)
    IN Float(a < 0, RoundFloat(d.mag, d.sticky))

\* x * c for a float x and an int c > 0
FloatMul(x, c) == Float(x.neg, RoundFloat(MulBits(x.mag, c), FALSE))

\* x - c for a float x and an int c >= 0
FloatSub(x, c) ==
    IF x.neg
    THEN Float(TRUE, RoundFloat(AddBits(x.mag, NatBits(c)), FALSE))
    ELSE IF GreaterEq(x.mag, NatBits(c))
    THEN Float(FALSE, RoundFloat(SubBits(x.mag, NatBits(c)), FALSE))
    ELSE Float(TRUE, RoundFloat(SubBits(NatBits(c), x.mag), FALSE))

\* int(x): truncation toward zero
int(x) == IF x.neg THEN 0 - x.mag[Limbs] ELSE x.mag[Limbs]

----------------------------------------------------------------------------
(* YamahaController: the volume of the receiver *)

\* set_volume with a scale of 1000 steps
yamaha_volume_of_1000(volume) ==
    int(FloatSub(FloatMul(TrueDiv(volume, 100), 1000), 1000))

\* set_volume: yamaha_volume = int((volume / 100) * 800 - 800)
yamaha_volume_of(volume) == int(FloatSub(FloatMul(TrueDiv(volume, 100), 800), 800))

\* get_status: status['volume'] = int((yamaha_vol + 800) / 800 * 100)
status_volume_of(yamaha_vol) == int(FloatMul(TrueDiv(yamaha_vol + 800, 800), 100))

VolumeMargin == 10
NativeMargin == 10

\* the levels set_volume is called with
YamahaVolumes == (0 - VolumeMargin)..(100 + VolumeMargin)

\* the Val of a Basic_Status reply
NativeValues == (0 - 800 - NativeMargin)..NativeMargin

\* What requests.post meets: an exception, a response, or a device that
\* accepts the connection and never answers
Post_raises(type) == [kind |-> "exc", type |-> type]
Post_response(code, body) == [kind |-> "response", code |-> code, body |-> body]
Post_no_answer == [kind |-> "no_answer"]

\* a call that never returns
Blocked == [kind |-> "blocked"]

\* a timeout argument of n seconds
Seconds(n) == [tag |-> "seconds", n |-> n]

\* requests.post(..., timeout=timeout): without a timeout a device that never
\* answers keeps the call waiting; with one, the wait ends in Timeout
requests_post(outcome, timeout_arg) ==
    IF outcome.kind = "no_answer"
    THEN IF timeout_arg = NoneV THEN Blocked ELSE Post_raises("Timeout")
    ELSE outcome

\* the decimal numeral of n as the text of an element
Numeral(n) == [tag |-> "numeral", n |-> n]

\* A well-formed reply: whether its elements sit inside a Main_Zone, the text
\* of its Power, Volume/Lvl/Val, Input/Input_Sel and Volume/Mute elements
\* (Absent: no such element, NoneV: an empty element) and the texts of its
\* Input_Sel_Item/Item elements
Reply(main_zone, Power, Val, Input_Sel, Mute, Items) ==
    [main_zone |-> main_zone, Power |-> Power, Val |-> Val,
     Input_Sel |-> Input_Sel, Mute |-> Mute, Items |-> Items]

ValTexts == {Absent, NoneV, Str("abc")} \cup {Numeral(n) : n \in NativeValues}

StatusReplies ==
    {Reply(TRUE, Str("On"), v, Str("HDMI1"), Str("Off"), <<>>) : v \in ValTexts}
    \cup {Reply(TRUE, Absent, v, Absent, Absent, <<>>) : v \in ValTexts}
    \cup {Reply(FALSE, Str("On"), Numeral(0 - 350), NoneV, Str("On"), <<>>)}

ItemTexts == {<<>>, <<Str("HDMI1")>>, <<Str("HDMI1"), Str("AV1")>>,
              <<NoneV>>, <<NoneV, Str("AV1")>>}

ItemReplies == {Reply(TRUE, Absent, Absent, Absent, Absent, items) : items \in ItemTexts}

Reply_ok == Reply(TRUE, Str("On"), Numeral(0 - 350), Str("HDMI1"), Str("Off"), <<>>)

\* the device-level failures: no route to the device, no answer, an HTTP
\* error status, a body that is no XML document
PostFailures == {Post_raises("ConnectionError"), Post_no_answer,
                 Post_response(500, Reply_ok), Post_response(200, NotXml)}

PostsOf(replies) == PostFailures \cup {Post_response(200, r) : r \in replies}

\* YamahaController._send_command: one requests.post without a timeout
\* argument; None for every exception, the parsed document otherwise
Yamaha_send_command(outcome) ==
    LET r == requests_post(outcome, NoneV)
    IN IF r.kind = "blocked" THEN Blocked
       ELSE IF r.kind = "exc" THEN NoneV
       ELSE IF r.code >= 400 /\ r.code < 600 THEN NoneV
       ELSE IF r.body = NotXml THEN NoneV
       ELSE r.body

IsBlocked(root) == "kind" \in DOMAIN root /\ root.kind = "blocked"

\* a Python bool and a Python list as values of a call record
Bool(b) == [tag |-> "bool", b |-> b]
List(items) == [tag |-> "list", items |-> items]

\* how a block of code ends: with a value, or with an exception
Return(value) == [kind |-> "return", value |-> value]

\* The record of one call of a method: its argument, what its post met, and how
\* it ended (end is what the method's code gives once _send_command has given
\* root)
Call(method, arg, outcome, root, end) ==
    [method |-> method, arg |-> arg, post |-> outcome, posts |-> 1,
     blocked |-> IsBlocked(root),
     raised |-> ~IsBlocked(root) /\ end.kind = "raise",
     ret |-> IF IsBlocked(root) THEN Blocked
             ELSE IF end.kind = "raise" THEN Raises ELSE end.value]

\* YamahaController.set_volume(volume): the Val it transmits and what it
\* returns (True iff _send_command gave a document)
Yamaha_set_volume(volume, outcome) ==
    LET root == Yamaha_send_command(outcome)
    IN [method |-> "set_volume", volume |-> volume, post |-> outcome,
        posts |-> 1, Val |-> yamaha_volume_of(volume),
        blocked |-> IsBlocked(root), raised |-> FALSE,
        ret |-> IF IsBlocked(root) THEN Blocked ELSE Bool(root # NoneV)]

\* set_power, set_input, set_mute: True iff _send_command gave a document
Yamaha_set(method, arg, outcome) ==
    LET root == Yamaha_send_command(outcome)
    IN Call(method, arg, outcome, root, Return(Bool(root # NoneV)))

\* YamahaController.get_status() on a reply whose Volume/Lvl/Val is Val: the
\* volume of the status it returns
Yamaha_get_status(Val) ==
    [method |-> "get_status", Val |-> Val, volume |-> status_volume_of(Val)]

EmptyDict == [tag |-> "dict", keys |-> {}]

StatusDict(power, volume, input, mute) ==
    [tag |-> "dict", keys |-> {"power", "volume", "input", "mute"},
     power |-> power, volume |-> volume, input |-> input, mute |-> mute]

\* get_status, lines 62-85: what the body of the try block gives for a
\* document; int(volume.text) raises for a text that is no numeral
status_of(root) ==
    IF ~root.main_zone THEN Return(EmptyDict)
    ELSE IF root.Val # Absent /\ root.Val.tag # "numeral" THEN Raises
    ELSE Return(StatusDict(root.Power = Str("On"),
                    IF root.Val = Absent THEN 0
                    ELSE Yamaha_get_status(root.Val.n).volume,
                    IF root.Input_Sel = Absent THEN Str("") ELSE root.Input_Sel,
                    root.Mute = Str("On")))

\* get_status without its exception handler
get_status_uncaught(outcome) ==
    LET root == Yamaha_send_command(outcome)
    IN Call("get_status", NoneV, outcome, root,
            IF root = NoneV THEN Return(EmptyDict) ELSE status_of(root))

\* YamahaController.get_status
get_status(outcome) ==
    LET root == Yamaha_send_command(outcome)
        body == status_of(root)
    IN Call("get_status", NoneV, outcome, root,
            IF root = NoneV THEN Return(EmptyDict)
            ELSE IF body.kind = "raise" THEN Return(EmptyDict) ELSE body)

\* YamahaController.get_input_list: the texts of the Item elements that have
\* one
get_input_list(outcome) ==
    LET root == Yamaha_send_command(outcome)
    IN Call("get_input_list", NoneV, outcome, root,
            Return(List(IF root = NoneV THEN <<>>
                        ELSE SelectSeq(root.Items,
                                       LAMBDA t : t # NoneV /\ t # Str("")))))

\* MediaController.get_input_sources: the common Yamaha input sources
Catalogue ==
    <<Str("HDMI1"), Str("HDMI2"), Str("HDMI3"), Str("HDMI4"), Str("HDMI5"),
      Str("AV1"), Str("AV2"), Str("AV3"), Str("AV4"), Str("AV5"), Str("AV6"),
      Str("AUDIO1"), Str("AUDIO2"), Str("AUDIO3"),
      Str("TUNER"), Str("PHONO"), Str("CD"),
      Str("NET RADIO"), Str("SERVER"), Str("NAPSTER"),
      Str("SPOTIFY"), Str("BLUETOOTH"), Str("USB"), Str("AirPlay")>>

get_input_sources(cr) ==
    [method |-> "get_input_sources", arg |-> NoneV, post |-> NoneV, posts |-> 0,
     blocked |-> FALSE, raised |-> FALSE,
     ret |-> IF cr = NoneV THEN NoneV ELSE List(Catalogue)]

\* re.search(r'http://([^:/]+)[:/]', location): the group of the leftmost
\* match, None without one
ip_match(location) ==
    LET Sep == {":", "/"}
        Http == <<"h","t","t","p",":","/","/">>
        EndOf(i) == {j \in (i + 8)..Len(location) :
                        /\ location[j] \in Sep
                        /\ \A k \in (i + 7)..(j - 1) : location[k] \notin Sep}
        Starts == {i \in 1..Len(location) :
                      /\ i + 6 <= Len(location)
                      /\ SubSeq(location, i, i + 6) = Http
                      /\ EndOf(i) # {}}
    IN IF Starts = {} THEN NoneV
       ELSE LET i == CHOOSE x \in Starts : \A y \in Starts : x <= y
                j == CHOOSE x \in EndOf(i) : TRUE
            IN Str(SubSeq(location, i + 7, j - 1))

\* MediaController.get_media_info: one post with timeout=1 to the Yamaha
\* control URL of the current renderer's host
get_media_info(cr, outcome) ==
    LET r == requests_post(outcome, Seconds(1))
        sent == cr # NoneV /\ ip_match(cr.location) # NoneV
        xml == r.body
    IN [method |-> "get_media_info", arg |-> NoneV, post |-> outcome,
        posts |-> IF sent THEN 1 ELSE 0, blocked |-> FALSE, raised |-> FALSE,
        ret |-> IF ~sent THEN NoneV
                ELSE IF r.kind = "exc" THEN NoneV
                ELSE IF r.code # 200 THEN NoneV
                ELSE IF xml = NotXml THEN NoneV
                ELSE [tag |-> "dict",
                      title  |-> IF xml.Input_Sel = Absent THEN Str("Unknown")
                                 ELSE xml.Input_Sel,
                      state  |-> IF xml.Power = Str("On") THEN "PLAYING" ELSE "STOPPED",
                      volume |-> IF xml.Val = Absent THEN Str("0") ELSE xml.Val,
                      mute   |-> xml.Mute = Str("On")]]

YamahaSetVolume ==
    /\ receiver_call = NoneV
    /\ \E volume \in YamahaVolumes, outcome \in PostsOf({Reply_ok}) :
          receiver_call' = Yamaha_set_volume(volume, outcome)
    /\ UNCHANGED <<session, soap, discovery, browsing, threads, ui>>

YamahaSet ==
    /\ receiver_call = NoneV
    /\ \E outcome \in PostsOf({Reply_ok}) :
          \/ \E power \in BOOLEAN :
                receiver_call' = Yamaha_set("set_power", Bool(power), outcome)
          \/ \E input_source \in {Str("HDMI1"), Str("NOSUCH")} :
                receiver_call' = Yamaha_set("set_input", input_source, outcome)
          \/ \E mute \in BOOLEAN :
                receiver_call' = Yamaha_set("set_mute", Bool(mute), outcome)
    /\ UNCHANGED <<session, soap, discovery, browsing, threads, ui>>

YamahaGetStatus ==
    /\ receiver_call = NoneV
    /\ \E outcome \in PostsOf(StatusReplies) : receiver_call' = get_status(outcome)
    /\ UNCHANGED <<session, soap, discovery, browsing, threads, ui>>

YamahaGetInputList ==
    /\ receiver_call = NoneV
    /\ \E outcome \in PostsOf(ItemReplies) :
          receiver_call' = get_input_list(outcome)
    /\ UNCHANGED <<session, soap, discovery, browsing, threads, ui>>

GetInputSources ==
    /\ receiver_call = NoneV
    /\ receiver_call' = get_input_sources(current_renderer)
    /\ UNCHANGED <<session, soap, discovery, browsing, threads, ui>>

GetMediaInfo ==
    /\ receiver_call = NoneV
    /\ \E outcome \in PostsOf(StatusReplies) :
          receiver_call' = get_media_info(current_renderer, outcome)
    /\ UNCHANGED <<session, soap, discovery, browsing, threads, ui>>

\* the method has returned; the controller keeps nothing of the call
YamahaReturn ==
    /\ receiver_call # NoneV
    /\ ~receiver_call.blocked
    /\ receiver_call' = NoneV
    /\ UNCHANGED <<session, soap, discovery, browsing, threads, ui>>

NextYamaha ==
    \/ YamahaSetVolume
    \/ YamahaSet
    \/ YamahaGetStatus
    \/ YamahaGetInputList
    \/ GetInputSources
    \/ GetMediaInfo
    \/ YamahaReturn

----------------------------------------------------------------------------
(* set_renderer statement by statement, beside a thread that reads the       *)
(* selection.  Each assignment to an attribute of the controller is one      *)
(* step; the reader takes all four attributes in one step.                   *)

\* no call of set_renderer in progress, nothing read yet
Idle == [pc |-> "idle", renderer |-> NoneV, pre |-> NoneV, post |-> NoneV,
         snap |-> NoneV]

Selection(cr, av, rc, rcv) == [cr |-> cr, av |-> av, rc |-> rc, rcv |-> rcv]

CurrentSelection ==
    Selection(current_renderer, av_transport, rendering_control, receiver)

\* the devices set_renderer is called with while a reader runs
ThreadRenderers ==
    {d \in Descriptors :
        /\ d.location \in {Loc_empty, Loc_nohost, Loc_a}
        /\ d.manufacturer \in {Str(<<"Y","a","m","a","h","a">>),
                               Str(<<"S","o","n","y">>), NoneV}
        /\ d.device_type = Str(<<"M","e","d","i","a","R","e","n","d","e","r","e","r">>)}

\* lines 112-128: where the call goes before its first assignment
first_statement(d) ==
    IF d.device_type.tag = "None" \/ d.manufacturer.tag = "None" THEN "l145"
    ELSE IF d.location = <<>> THEN "return False"
    ELSE IF IsVendor(d.manufacturer)
    THEN IF HasHost(d.location) THEN "l130" ELSE "l135"
    ELSE "l138"

Return_set_renderer(d, ret) ==
    /\ threads' = [threads EXCEPT !.pc = "idle"]
    /\ result' = IF ret THEN "True" ELSE "False"
    /\ lastOp' = [op |-> "set_renderer", arg |-> d]
    /\ calls' = <<>>

Goto(pc) ==
    /\ threads' = [threads EXCEPT !.pc = pc]
    /\ UNCHANGED <<lastOp, result, calls>>

\* set_renderer is called: lines 112-128
Begin_set_renderer ==
    /\ threads.pc = "idle"
    /\ \E d \in ThreadRenderers :
          LET r == set_renderer(d, current_renderer, av_transport,
                                rendering_control, receiver)
              started == [pc |-> first_statement(d), renderer |-> d,
                          pre |-> CurrentSelection,
                          post |-> Selection(r.cr, r.av, r.rc, r.rcv),
                          snap |-> NoneV]
          IN IF first_statement(d) = "return False"
             THEN /\ threads' = [started EXCEPT !.pc = "idle"]
                  /\ result' = "False"
                  /\ lastOp' = [op |-> "set_renderer", arg |-> d]
                  /\ calls' = <<>>
             ELSE /\ threads' = started
                  /\ UNCHANGED <<lastOp, result, calls>>
    /\ UNCHANGED <<current_renderer, av_transport, rendering_control, receiver,
                   current_server, current_media_url, soap, discovery,
                   browsing, receiver_call, ui>>

\* one statement of the call in progress
Step_set_renderer ==
    /\ threads.pc # "idle"
    /\ LET d == threads.renderer
       IN \/ /\ threads.pc = "l130"
             /\ receiver' = YamahaController(HostOf(d.location))
             /\ Return_set_renderer(d, TRUE)
             /\ UNCHANGED <<current_renderer, av_transport, rendering_control>>
          \/ /\ threads.pc = "l135"
             /\ receiver' = NoneV
             /\ Goto("l138")
             /\ UNCHANGED <<current_renderer, av_transport, rendering_control>>
          \/ /\ threads.pc = "l138"
             /\ current_renderer' = d
             /\ Goto("l139")
             /\ UNCHANGED <<av_transport, rendering_control, receiver>>
          \/ /\ threads.pc = "l139"
             /\ LET s == setup_av_transport(current_renderer, av_transport,
                                            rendering_control)
                IN av_transport' = s.av /\ rendering_control' = s.rc
             /\ Return_set_renderer(d, TRUE)
             /\ UNCHANGED <<current_renderer, receiver>>
          \/ /\ threads.pc = "l145"
             /\ current_renderer' = NoneV
             /\ Goto("l146")
             /\ UNCHANGED <<av_transport, rendering_control, receiver>>
          \/ /\ threads.pc = "l146"
             /\ av_transport' = NoneV
             /\ Goto("l147")
             /\ UNCHANGED <<current_renderer, rendering_control, receiver>>
          \/ /\ threads.pc = "l147"
             /\ rendering_control' = NoneV
             /\ Goto("l148")
             /\ UNCHANGED <<current_renderer, av_transport, receiver>>
          \/ /\ threads.pc = "l148"
             /\ receiver' = NoneV
             /\ Return_set_renderer(d, FALSE)
             /\ UNCHANGED <<current_renderer, av_transport, rendering_control>>
    /\ UNCHANGED <<current_server, current_media_url, soap, discovery,
                   browsing, receiver_call, ui>>

\* another thread (the status poll of the UI) reads the selection
ReadSelection ==
    /\ threads.pc # "idle"
    /\ threads' = [threads EXCEPT !.snap = CurrentSelection]
    /\ UNCHANGED <<session, soap, discovery, browsing, receiver_call, ui>>

NextThreads == Begin_set_renderer \/ Step_set_renderer \/ ReadSelection

----------------------------------------------------------------------------
(* ControllerUI: the discovery thread.  _start_discovery runs on the UI       *)
(* thread (the clicked signal of the refresh button); each thread it starts  *)
(* runs _run_discovery.                                                      *)

MaxRequests == 3

\* a threading.Thread object, named by the order of its creation
Thread(id) == [tag |-> "Thread", id |-> id]

\* the window after __init__: no discovery thread.  workers[i] is how far
\* thread i is: "started", "swept" (discover_devices has returned), "done"
\* (the thread has ended); refused counts the requests that started nothing.
ControllerUI == [discovery_thread |-> NoneV, workers |-> <<>>, refused |-> 0]

is_alive(u, thread) == u.workers[thread.id] # "done"

\* _start_discovery that starts a thread whatever the previous one does
start_discovery_unchecked(u) ==
    [u EXCEPT !.discovery_thread = Thread(Len(u.workers) + 1),
              !.workers = Append(u.workers, "started")]

\* _start_discovery: nothing but a status message while the previous thread
\* is alive; else a new thread is created, kept in discovery_thread, started
start_discovery(u) ==
    IF u.discovery_thread # NoneV /\ is_alive(u, u.discovery_thread)
    THEN [u EXCEPT !.refused = @ + 1]
    ELSE [u EXCEPT !.discovery_thread = Thread(Len(u.workers) + 1),
                   !.workers = Append(u.workers, "started")]

StartDiscovery ==
    /\ Len(ui.workers) + ui.refused < MaxRequests
    /\ ui' = start_discovery(ui)
    /\ UNCHANGED <<session, soap, discovery, browsing, receiver_call, threads>>

\* _run_discovery on thread i: the sweep
RunDiscovery ==
    \E i \in 1..Len(ui.workers), sweep \in Sweeps :
        /\ ui.workers[i] = "started"
        /\ discovery' = discover_devices(discovery, sweep)
        /\ ui' = [ui EXCEPT !.workers[i] = "swept"]
        /\ UNCHANGED <<session, soap, browsing, receiver_call, threads>>

\* _run_discovery on thread i: the lists are handed over and the thread ends
FinishDiscovery ==
    \E i \in 1..Len(ui.workers) :
        /\ ui.workers[i] = "swept"
        /\ ui' = [ui EXCEPT !.workers[i] = "done"]
        /\ UNCHANGED <<session, soap, discovery, browsing, receiver_call, threads>>

NextUi == StartDiscovery \/ RunDiscovery \/ FinishDiscovery

----------------------------------------------------------------------------
Init ==
    /\ current_renderer = NoneV
    /\ av_transport = NoneV
    /\ rendering_control = NoneV
    /\ receiver = NoneV
    /\ current_server = NoneV
    /\ current_media_url = NoneV
    /\ lastOp = [op |-> "init", arg |-> NoneV]
    /\ result = "None"
    /\ calls = <<>>
    /\ soap = NoneV
    /\ discovery = DeviceDiscovery
    /\ browsing = NoneV
    /\ receiver_call = NoneV
    /\ threads = Idle
    /\ ui = ControllerUI

Next == SetRenderer \/ Operation

\* The renderer side of the session as the program runs it: the renderer
\* bindings change through set_renderer only
Spec == Init /\ [][Next]_vars

NextServer == SetServer \/ BrowseMediaServer \/ BrowseContainer

\* The server side of the session: current_server changes through set_server
\* only
SpecServer == Init /\ [][NextServer]_vars

\* set_renderer on the descriptors of ThreadRenderers: a Yamaha device, a
\* device of another vendor and one without manufacturer, each with a usable
\* location, with one that has no host part and with none
SelectRenderer ==
    \E d \in ThreadRenderers :
        LET r == set_renderer(d, current_renderer, av_transport,
                              rendering_control, receiver)
        IN /\ current_renderer' = r.cr
           /\ av_transport' = r.av
           /\ rendering_control' = r.rc
           /\ receiver' = r.rcv
           /\ result' = IF r.ret THEN "True" ELSE "False"
           /\ lastOp' = [op |-> "set_renderer", arg |-> d]
           /\ calls' = <<>>
           /\ UNCHANGED <<current_server, current_media_url, soap, library>>

NextSelection == SelectRenderer \/ SetServer

\* the two selections of one controller
SpecSelection == Init /\ [][NextSelection]_vars

\* The operations taken as functions of the object's state: the fields range
\* over the unbound value, test doubles (as the test fixture builds them) and
\* instances of the service classes.
Renderer_a == [tag |-> "dev", location |-> Loc_a,
               manufacturer |-> Str(<<"S","o","n","y">>),
               device_type |-> Str(<<"M","e","d","i","a","R","e","n","d","e","r","e","r">>)]

MockServer == [tag |-> "MockDevice", location |-> Loc_a, service |-> MockService]

InitOps ==
    /\ current_renderer \in {NoneV, Renderer_a}
    /\ av_transport \in {NoneV, MockService, AVTransportService(Loc_a)}
    /\ rendering_control \in {NoneV, MockService, RenderingControlService(Loc_a)}
    /\ receiver \in {NoneV, YamahaController(<<"a">>)}
    /\ current_server \in {NoneV, MockServer, DeviceWrapper(Loc_a, DeviceInfo_a)}
    /\ current_media_url = NoneV
    /\ lastOp = [op |-> "init", arg |-> NoneV]
    /\ result = "None"
    /\ calls = <<>>
    /\ soap = NoneV
    /\ discovery = DeviceDiscovery
    /\ browsing = NoneV
    /\ receiver_call = NoneV
    /\ threads = Idle
    /\ ui = ControllerUI

SpecOps == InitOps /\ [][Operation]_vars

\* sweeps on one DeviceDiscovery object
\* discovery requests of the window
SpecUi == Init /\ [][NextUi]_vars

SpecDiscovery == Init /\ [][DiscoverDevices]_vars

\* a device whose type names both kinds
Device_both == Device(Str(Type_MediaServer \o Type_MediaRenderer), Loc_b, "n3")

\* a sweep that finds such a device, alone or beside a server or a renderer
DiscoverMixed ==
    \E other \in RawDevices, first \in BOOLEAN :
        /\ discovery' = discover_devices(discovery,
                            [kind |-> "ok",
                             devices |-> IF first THEN <<Device_both, other>>
                                         ELSE <<other, Device_both>>])
        /\ UNCHANGED <<session, soap, browsing, receiver_call, threads, ui>>

NextLists == DiscoverDevices \/ DiscoverMixed

\* sweeps, among them sweeps with a device of both kinds
SpecLists == Init /\ [][NextLists]_vars

\* listings of containers
SpecBrowse == Init /\ [][NextBrowse]_vars

\* set_renderer beside a reader
SpecThreads == Init /\ [][NextThreads]_vars

\* calls of the YamahaController methods
Renderer_c == [Renderer_a EXCEPT !.location = Loc_c]

\* the controller with nothing selected, or after set_renderer of a generic
\* renderer
InitYamaha ==
    /\ current_renderer \in {NoneV, Renderer_a, Renderer_c}
    /\ av_transport = NoneV
    /\ rendering_control = NoneV
    /\ receiver = NoneV
    /\ current_server = NoneV
    /\ current_media_url = NoneV
    /\ lastOp = [op |-> "init", arg |-> NoneV]
    /\ result = "None"
    /\ calls = <<>>
    /\ soap = NoneV
    /\ discovery = DeviceDiscovery
    /\ browsing = NoneV
    /\ receiver_call = NoneV
    /\ threads = Idle
    /\ ui = ControllerUI

SpecYamaha == InitYamaha /\ [][NextYamaha]_vars

\* a call whose method returns does return
SpecYamahaLive == SpecYamaha /\ WF_vars(YamahaReturn)

----------------------------------------------------------------------------
(* SOAP transport of the service classes                                    *)
(*                                                                          *)
(* One invocation of a service method is a function of the method's         *)
(* arguments and of what the network answers to each request it sends.  Its *)
(* value is the sequence of requests and sleeps it performed (wire) and how *)
(* it ended (outcome "ok", or "raise" with the exception in error).         *)

timeout == 5
max_retries == 3
retry_delay == 1
probe_timeout == 2

Status(code) == [kind |-> "status", code |-> code]
Exc(type) == [kind |-> "exc", type |-> type]

\* What a HEAD request can meet: a status, or an exception of requests
HeadResponses == {Status(200), Status(404), Exc("ConnectionError")}

\* What a POST request can meet
PostResponses == {Status(200), Status(304), Status(500),
                  Exc("Timeout"), Exc("ConnectionError"), Exc("RequestException")}

\* What the network answers during one invocation: to the probe of the media
\* URI, to the probe of the renderer, and to each POST attempt
Scripts == [uri_probe : HeadResponses, probe : HeadResponses,
            posts : [1..max_retries -> PostResponses]]

AVTransport_path == <<"/","M","e","d","i","a","R","e","n","d","e","r","e","r","/","A","V","T","r","a","n","s","p","o","r","t","/","C","o","n","t","r","o","l">>

RenderingControl_path == <<"/","M","e","d","i","a","R","e","n","d","e","r","e","r","/","R","e","n","d","e","r","i","n","g","C","o","n","t","r","o","l","/","C","o","n","t","r","o","l">>

\* the control_url the service's __init__ derives from the device location
control_url(svc) ==
    IF svc.tag = "AVTransportService"
    THEN base_url(svc.location) \o AVTransport_path
    ELSE base_url(svc.location) \o RenderingControl_path

\* response.raise_for_status(): HTTPError for a 4xx or 5xx status
raise_for_status(resp) ==
    IF resp.code >= 400 /\ resp.code < 600
    THEN [type |-> "HTTPError", status |-> resp.code]
    ELSE NoneV

\* The exception one POST attempt ends with (NoneV: the attempt succeeded)
post_exception(resp) ==
    IF resp.kind = "exc"
    THEN [type |-> resp.type, status |-> 0]
    ELSE raise_for_status(resp)

\* HTTPError without the except clause for RequestException catching it
caught_by_handlers_not_http(e) ==
    e.type \in {"Timeout", "ConnectionError", "RequestException"}

\* The except clauses of the retry loop: requests.Timeout,
\* requests.ConnectionError, requests.RequestException (HTTPError is a
\* subclass of RequestException)
caught_by_handlers(e) ==
    e.type \in {"Timeout", "ConnectionError", "RequestException", "HTTPError"}

\* the sleep between attempt + 1 and the next attempt (attempt counts from 0)
backoff(svc, attempt) ==
    IF svc.tag = "AVTransportService"
    THEN retry_delay * (attempt + 1)
    ELSE retry_delay

HeadEvent(url, resp) ==
    [e |-> "HEAD", url |-> url, timeout |-> probe_timeout, resp |-> resp]

PostEvent(svc, action, attempt, t, resp) ==
    [e |-> "POST", url |-> control_url(svc), action |-> action,
     attempt |-> attempt + 1, timeout |-> <<t, t * 2>>, resp |-> resp]

SleepEvent(secs) == [e |-> "SLEEP", secs |-> secs]

\* the retry loop giving up one attempt early
RECURSIVE post_loop_short(_, _, _, _, _, _, _)
post_loop_short(svc, action, t, attempt, posts, wire, last_exception) ==
    IF attempt >= max_retries - 1
    THEN [wire |-> wire, outcome |-> "raise",
          error |-> IF last_exception = NoneV
                    THEN [type |-> "RuntimeError", status |-> 0]
                    ELSE last_exception]
    ELSE LET resp  == posts[attempt + 1]
             wire1 == wire \o <<PostEvent(svc, action, attempt, t, resp)>>
             e     == post_exception(resp)
         IN IF e = NoneV
            THEN [wire |-> wire1, outcome |-> "ok", error |-> NoneV]
            ELSE IF ~caught_by_handlers(e)
            THEN [wire |-> wire1, outcome |-> "raise", error |-> e]
            ELSE post_loop_short(svc, action, t, attempt + 1, posts,
                     IF attempt < max_retries - 1
                     THEN wire1 \o <<SleepEvent(backoff(svc, attempt))>>
                     ELSE wire1,
                     e)

\* the retry loop without the return after a successful POST: it goes on to
\* the next attempt
RECURSIVE post_loop_no_return(_, _, _, _, _, _, _)
post_loop_no_return(svc, action, t, attempt, posts, wire, last_exception) ==
    IF attempt >= max_retries
    THEN IF last_exception = NoneV
         THEN [wire |-> wire, outcome |-> "ok", error |-> NoneV]
         ELSE [wire |-> wire, outcome |-> "raise", error |-> last_exception]
    ELSE LET resp  == posts[attempt + 1]
             wire1 == wire \o <<PostEvent(svc, action, attempt, t, resp)>>
             e     == post_exception(resp)
         IN IF e # NoneV /\ ~caught_by_handlers(e)
            THEN [wire |-> wire1, outcome |-> "raise", error |-> e]
            ELSE post_loop_no_return(svc, action, t, attempt + 1, posts,
                     IF attempt < max_retries - 1
                     THEN wire1 \o <<SleepEvent(backoff(svc, attempt))>>
                     ELSE wire1,
                     e)

\* "for attempt in range(self.max_retries)": POST; return on success; on a
\* caught exception remember it and, unless this was the last attempt, sleep;
\* after the loop raise the remembered exception.
RECURSIVE post_loop(_, _, _, _, _, _, _)
post_loop(svc, action, t, attempt, posts, wire, last_exception) ==
    IF attempt >= max_retries
    THEN [wire |-> wire, outcome |-> "raise",
          error |-> IF last_exception = NoneV
                    THEN [type |-> "RuntimeError", status |-> 0]
                    ELSE last_exception]
    ELSE LET resp  == posts[attempt + 1]
             wire1 == wire \o <<PostEvent(svc, action, attempt, t, resp)>>
             e     == post_exception(resp)
         IN IF e = NoneV
            THEN [wire |-> wire1, outcome |-> "ok", error |-> NoneV]
            ELSE IF ~caught_by_handlers(e)
            THEN [wire |-> wire1, outcome |-> "raise", error |-> e]
            ELSE post_loop(svc, action, t, attempt + 1, posts,
                     IF attempt < max_retries - 1
                     THEN wire1 \o <<SleepEvent(backoff(svc, attempt))>>
                     ELSE wire1,
                     e)

\* AVTransportService._check_renderer_available: HEAD of the authority of the
\* control URL; available iff the answer has status 200
check_renderer_available(resp) == resp.kind = "status" /\ resp.code = 200

\* _send_command of either service class.  AVTransportService probes the
\* renderer first and takes extended_timeout; RenderingControlService has
\* neither.
send_command(svc, action, extended_timeout, script, wire) ==
    IF svc.tag = "AVTransportService"
    THEN LET wire1 == wire \o <<HeadEvent(base_url(control_url(svc)), script.probe)>>
             t     == IF extended_timeout THEN timeout * 2 ELSE timeout
         IN IF ~check_renderer_available(script.probe)
            THEN [wire |-> wire1, outcome |-> "raise",
                  error |-> [type |-> "RuntimeError", status |-> 0]]
            ELSE post_loop(svc, action, t, 0, script.posts, wire1, NoneV)
    ELSE post_loop(svc, action, timeout, 0, script.posts, wire, NoneV)

\* the pause after a successful SetAVTransportURI, in tenths of a second
wait_time(uri) == IF Len(uri) > 255 THEN 10 ELSE 5

WaitEvent(tenths) == [e |-> "WAIT", tenths |-> tenths]

\* SetAVTransportURI probing the media URI before it looks at the scheme
SetAVTransportURI_probe_first(svc, uri, script) ==
    IF ~ValidScheme(uri)
    THEN [wire |-> <<HeadEvent(uri, script.uri_probe)>>, outcome |-> "raise",
          error |-> [type |-> "ValueError", status |-> 0]]
    ELSE LET r == send_command(svc, "SetAVTransportURI", TRUE, script,
                               <<HeadEvent(uri, script.uri_probe)>>)
         IN IF r.outcome = "ok"
            THEN [r EXCEPT !.wire = @ \o <<WaitEvent(wait_time(uri))>>]
            ELSE r

\* SetAVTransportURI in which a failed probe of the media URI ends the call
SetAVTransportURI_probe_blocks(svc, uri, script) ==
    IF ~ValidScheme(uri)
    THEN [wire |-> <<>>, outcome |-> "raise",
          error |-> [type |-> "ValueError", status |-> 0]]
    ELSE IF post_exception(script.uri_probe) # NoneV
    THEN [wire |-> <<HeadEvent(uri, script.uri_probe)>>, outcome |-> "raise",
          error |-> post_exception(script.uri_probe)]
    ELSE LET r == send_command(svc, "SetAVTransportURI", TRUE, script,
                               <<HeadEvent(uri, script.uri_probe)>>)
         IN IF r.outcome = "ok"
            THEN [r EXCEPT !.wire = @ \o <<WaitEvent(wait_time(uri))>>]
            ELSE r

\* AVTransportService.SetAVTransportURI: scheme check, best-effort HEAD of the
\* media URI (its result is ignored), the SOAP command with the extended
\* timeout, then the pause; every exception is logged and raised again.
SetAVTransportURI(svc, uri, script) ==
    IF ~ValidScheme(uri)
    THEN [wire |-> <<>>, outcome |-> "raise",
          error |-> [type |-> "ValueError", status |-> 0]]
    ELSE LET r == send_command(svc, "SetAVTransportURI", TRUE, script,
                               <<HeadEvent(uri, script.uri_probe)>>)
         IN IF r.outcome = "ok"
            THEN [r EXCEPT !.wire = @ \o <<WaitEvent(wait_time(uri))>>]
            ELSE r

\* RenderingControlService.SetVolume
RC_SetVolume(svc, script) == send_command(svc, "SetVolume", FALSE, script, <<>>)

\* The body of a response to Browse: whether the envelope has a
\* BrowseResponse, its Result (Absent: no such element, NoneV: an empty
\* element, else the text as what a parser makes of it: NotXml or a
\* DIDL-Lite document) and the text of its NumberReturned
BrowseEnvelope(browse_response, Result, NumberReturned) ==
    [kind |-> "envelope", browse_response |-> browse_response,
     Result |-> Result, NumberReturned |-> NumberReturned]

BrowseBodies ==
    { NotXml,
      BrowseEnvelope(FALSE, Absent, Absent),
      BrowseEnvelope(TRUE, Absent, Absent),
      BrowseEnvelope(TRUE, NoneV, NoneV),
      BrowseEnvelope(TRUE, NotXml, Numeral(0)),
      BrowseEnvelope(TRUE, Didl(<<>>), Numeral(0)),
      BrowseEnvelope(TRUE, Didl(<<>>), Str("abc")),
      BrowseEnvelope(TRUE,
          Didl(<<ContainerEl("2", Str("1"), Title("didl", "Albums"), "2"),
                 ItemEl("3", Title("didl", "Song"),
                        Res(ProtocolInfo_audio, "00:03:45", "u3"))>>),
          Numeral(2)) }

MetadataBodies ==
    { NotXml,
      BrowseEnvelope(FALSE, Absent, Absent),
      BrowseEnvelope(TRUE,
          Didl(<<ContainerEl("1", Str("7"), Title("didl", "Music"), "")>>),
          Numeral(1)) }

\* the result of lines 563-568 and 572-577: an empty DIDL-Lite document
Zeroed == [Result |-> Didl(<<>>), NumberReturned |-> 0]

BrowsePost(svc, resp) ==
    [e |-> "POST", url |-> svc.control_url, action |-> "Browse", attempt |-> 1,
     timeout |-> <<10, 10>>, resp |-> resp]

\* lines 542-560: what the try block of Browse gives
Browse_try(resp, body) ==
    IF post_exception(resp) # NoneV THEN Raises
    ELSE IF body = NotXml THEN Raises
    ELSE IF ~body.browse_response THEN Return(Zeroed)
    ELSE IF body.NumberReturned.tag = "str" THEN Raises
    ELSE Return([Result |-> IF body.Result \in {Absent, NoneV} THEN NotXml
                            ELSE body.Result,
                 NumberReturned |-> IF body.NumberReturned \in {Absent, NoneV}
                                    THEN 0 ELSE body.NumberReturned.n])

\* Browse without its exception handler
ServiceWrapper_Browse_uncaught(svc, resp, body) ==
    LET r == Browse_try(resp, body)
    IN [wire |-> <<BrowsePost(svc, resp)>>,
        outcome |-> IF r.kind = "raise" THEN "raise" ELSE "ok",
        error |-> NoneV,
        ret |-> IF r.kind = "raise" THEN Raises ELSE r.value.Result]

\* ServiceWrapper.Browse: one POST with timeout=10, no probe, no retry; every
\* exception gives the zeroed result.  ret is the Result of what it returns.
ServiceWrapper_Browse(svc, resp, body) ==
    LET r == Browse_try(resp, body)
    IN [wire |-> <<BrowsePost(svc, resp)>>, outcome |-> "ok", error |-> NoneV,
        ret |-> IF r.kind = "raise" THEN Zeroed.Result ELSE r.value.Result]

Uri_none == <<"a",".","m","p","3">>
Uri_long == Uri_http \o [i \in 1..256 |-> "a"]

Uris == {Uri_http, Uri_https, Uri_ftp, Uri_HTTP, Uri_none, Uri_long, <<>>}

ServiceLocations == {Loc_a, Loc_c}

AVTActions == {"Play", "Pause", "Stop", "GetPositionInfo"}

Invocation(svc, method, uri, r) ==
    [tag |-> "soap", svc |-> svc, method |-> method, uri |-> uri,
     wire |-> r.wire, outcome |-> r.outcome, error |-> r.error]

InvokeSetAVTransportURI ==
    /\ soap = NoneV
    /\ \E location \in ServiceLocations, uri \in Uris, script \in Scripts :
          LET svc == AVTransportService(location)
          IN /\ soap' = Invocation(svc, "SetAVTransportURI", uri,
                                   SetAVTransportURI(svc, uri, script))
             /\ UNCHANGED <<session, library>>

InvokeSendCommand ==
    /\ soap = NoneV
    /\ \E location \in ServiceLocations, action \in AVTActions, script \in Scripts :
          LET svc == AVTransportService(location)
          IN /\ soap' = Invocation(svc, action, <<>>,
                                   send_command(svc, action, FALSE, script, <<>>))
             /\ UNCHANGED <<session, library>>

InvokeSetVolume ==
    /\ soap = NoneV
    /\ \E location \in ServiceLocations, script \in Scripts :
          LET svc == RenderingControlService(location)
          IN /\ soap' = Invocation(svc, "SetVolume", <<>>, RC_SetVolume(svc, script))
             /\ UNCHANGED <<session, library>>

\* the method has returned or raised; the service keeps nothing of the call
SoapReturn ==
    /\ soap # NoneV
    /\ soap' = NoneV
    /\ UNCHANGED <<session, library>>

NextSoap ==
    \/ InvokeSetAVTransportURI
    \/ InvokeSendCommand
    \/ InvokeSetVolume
    \/ SoapReturn

SpecSoap == Init /\ [][NextSoap]_vars

\* one Browse of the ContentDirectory client, beside the commands of the two
\* renderer clients
InvokeBrowse ==
    /\ soap = NoneV
    /\ \E location \in ServiceLocations, script \in Scripts, body \in BrowseBodies :
          LET svc == ServiceWrapper(location, DeviceInfo_a.content_directory)
              r   == ServiceWrapper_Browse(svc, script.posts[1], body)
          IN /\ script.uri_probe = Status(200)
             /\ soap' = [tag |-> "soap", svc |-> svc, method |-> "Browse",
                         uri |-> <<>>, wire |-> r.wire, outcome |-> r.outcome,
                         error |-> r.error, script |-> script]
             /\ UNCHANGED <<session, library>>

NextTransport == NextSoap \/ InvokeBrowse

\* the three service clients
SpecTransport == Init /\ [][NextTransport]_vars

\* browse_media_server on the server set_server builds: both Browse calls go
\* through ServiceWrapper.Browse
BrowseThroughWrapper ==
    /\ browsing = NoneV
    /\ \E object_id \in ObjectIds, resp1 \in PostResponses, resp2 \in PostResponses,
          body1 \in BrowseBodies, body2 \in MetadataBodies :
          LET svc == ServiceWrapper(Loc_a, DeviceInfo_a.content_directory)
              b1  == ServiceWrapper_Browse(svc, resp1, body1)
              b2  == ServiceWrapper_Browse(svc, resp2, body2)
              r   == DD_browse_media_server(TRUE, object_id, b1.ret, b2.ret)
          IN browsing' = [tag |-> "browse", has_content_directory |-> TRUE,
                          object_id |-> object_id, children |-> b1.ret,
                          metadata |-> b2.ret, ret |-> r.ret, log |-> r.log,
                          replies |-> <<[resp |-> resp1, body |-> body1],
                                        [resp |-> resp2, body |-> body2]>>]
    /\ UNCHANGED <<session, soap, discovery, receiver_call, threads, ui>>

NextListing == BrowseServer \/ BrowseThroughWrapper \/ BrowseReturn

SpecListing == Init /\ [][NextListing]_vars

\* The SOAP body of _send_command (lines 206-215 and 348-357).  A text is the
\* sequence of its pieces: the literal pieces of the f-string and the names
\* and values put between them.
ParamNames == {"InstanceID", "CurrentURI", "Speed"}
ParamValues == {"0", "1", "http://a/m.mp3"}
MaxParams == 2

\* a params dict: its items in the order the caller wrote them, keys distinct
ParamDicts ==
    { ps \in UNION { [1..n -> ParamNames \X ParamValues] : n \in 0..MaxParams } :
         \A i, j \in 1..Len(ps) : i # j => ps[i][1] # ps[j][1] }

\* f'<{k}>{v}</>{k}>'
param_xml(k, v) == <<"<", k, ">", v, "<", "/", ">", k, ">">>

\* '\n'.join(f'<{k}>{v}</>{k}>' for k, v in params.items())
params_xml(params) ==
    Join([i \in 1..Len(params) |-> param_xml(params[i][1], params[i][2])], <<"\n">>)

service_type(svc) ==
    IF svc.tag = "AVTransportService"
    THEN "urn:schemas-upnp-org:service:AVTransport:1"
    ELSE "urn:schemas-upnp-org:service:RenderingControl:1"

\* the Body of the envelope: the action element in the namespace of the
\* service, and between its tags params_xml
soap_body(svc, action, params) ==
    [open   |-> <<"<", "u:", action, " xmlns:u=", service_type(svc), ">">>,
     inner  |-> params_xml(params),
     close  |-> <<"<", "/", "u:", action, ">">>]

\* _send_command has built the body it is about to post
BuildEnvelope ==
    /\ soap = NoneV
    /\ \E location \in ServiceLocations, avt \in BOOLEAN,
          action \in {"Play", "SetVolume"}, params \in ParamDicts :
          LET svc == IF avt THEN AVTransportService(location)
                     ELSE RenderingControlService(location)
          IN soap' = [tag |-> "envelope", svc |-> svc, action |-> action,
                      params |-> params, body |-> soap_body(svc, action, params)]
    /\ UNCHANGED <<session, library>>

EnvelopePosted ==
    /\ soap # NoneV
    /\ soap' = NoneV
    /\ UNCHANGED <<session, library>>

NextEnvelope == BuildEnvelope \/ EnvelopePosted

SpecEnvelope == Init /\ [][NextEnvelope]_vars

----------------------------------------------------------------------------
(* Properties of the session *)

\* The device a binding refers to: the host of its location (the location
\* itself when it has no host part)
DeviceKey(location) == IF HasHost(location) THEN HostOf(location) ELSE location

BoundDevices ==
    (IF Truthy(current_renderer) THEN {DeviceKey(current_renderer.location)} ELSE {})
    \cup (IF Truthy(av_transport) /\ av_transport.tag # "Mock"
          THEN {DeviceKey(av_transport.location)} ELSE {})
    \cup (IF Truthy(rendering_control) /\ rendering_control.tag # "Mock"
          THEN {DeviceKey(rendering_control.location)} ELSE {})
    \cup (IF Truthy(receiver) THEN {receiver.ip_address} ELSE {})

\* C1: after any sequence of set_renderer calls, current_renderer, the
\* AVTransport client, the RenderingControl client and the receiver controller
\* never refer to different devices.
C1_OneSelection == Cardinality(BoundDevices) <= 1

IsGenericDescriptor(d) == d.manufacturer.tag = "str" /\ ~IsVendor(d.manufacturer)

IsVendorDescriptor(d) == d.manufacturer.tag = "str" /\ IsVendor(d.manufacturer)

\* C2: set_renderer on a descriptor of no known vendor either binds both
\* clients and returns True, or returns False and leaves current_renderer and
\* both clients unset.
C2_GenericAtomic ==
    (lastOp.op = "set_renderer" /\ IsGenericDescriptor(lastOp.arg)) =>
        \/ result = "True" /\ Truthy(av_transport) /\ Truthy(rendering_control)
        \/ /\ result = "False"
           /\ current_renderer = NoneV
           /\ av_transport = NoneV
           /\ rendering_control = NoneV

ExpectedPlayCalls(url, o1, o2) ==
    <<[m |-> "SetAVTransportURI", InstanceID |-> 0, CurrentURI |-> url,
       CurrentURIMetaData |-> <<>>, outcome |-> o1],
      [m |-> "Play", InstanceID |-> 0, Speed |-> <<"1">>, outcome |-> o2]>>

\* C4: once a generic renderer is selected, play(url) issues SetAVTransportURI
\* (InstanceID 0, the url, empty metadata) and then Play (InstanceID 0, Speed
\* "1") and returns True when both succeed; pause() and stop() issue Pause and
\* Stop with InstanceID 0 and return True when the call succeeds.
C4_PlaybackCalls ==
    /\ (lastOp.op = "play" /\ Truthy(lastOp.arg) /\ Truthy(current_renderer)) =>
          /\ Len(calls) >= 1
          /\ calls[1] = ExpectedPlayCalls(lastOp.arg.s, calls[1].outcome, "ok")[1]
          /\ calls[1].outcome = "ok" =>
                /\ Len(calls) = 2
                /\ calls = ExpectedPlayCalls(lastOp.arg.s, "ok", calls[2].outcome)
                /\ calls[2].outcome = "ok" => result = "True"
    /\ (lastOp.op = "pause" /\ Truthy(current_renderer)) =>
          /\ Len(calls) = 1
          /\ calls[1].m = "Pause" /\ calls[1].InstanceID = 0
          /\ calls[1].outcome = "ok" => result = "True"
    /\ (lastOp.op = "stop" /\ Truthy(current_renderer)) =>
          /\ Len(calls) = 1
          /\ calls[1].m = "Stop" /\ calls[1].InstanceID = 0
          /\ calls[1].outcome = "ok" => result = "True"

\* C5: with no renderer selected play, pause, stop and set_volume return False
\* and get_position_info / get_transport_info return None; with no server
\* selected browse_media_server and browse_container return the empty list;
\* none of them issues a request or raises.
C5_NothingSelected ==
    /\ (lastOp.op \in {"play", "pause", "stop", "set_volume"}
        /\ current_renderer = NoneV) => (result = "False" /\ calls = <<>>)
    /\ (lastOp.op \in {"get_position_info", "get_transport_info"}
        /\ current_renderer = NoneV) => (result = "None" /\ calls = <<>>)
    /\ (lastOp.op \in {"browse_media_server", "browse_container"}
        /\ current_server = NoneV) => (result = "[]" /\ calls = <<>>)

\* play(url) ran with no renderer selected although an AVTransport client was at hand
C5_Witness ==
    /\ lastOp.op = "play"
    /\ Truthy(lastOp.arg)
    /\ current_renderer = NoneV
    /\ Truthy(av_transport)
    /\ result = "False"
    /\ calls = <<>>

\* C6: when the device call fails during play, pause, stop or set_volume on a
\* selected renderer, the operation returns False and raises nothing.
C6_DeviceFailureIsFalse ==
    (/\ lastOp.op \in {"play", "pause", "stop", "set_volume"}
     /\ Truthy(current_renderer)
     /\ \E i \in 1..Len(calls) : calls[i].outcome = "raise")
    => result = "False"

\* set_volume on a selected renderer whose SetVolume call failed
C6_Witness ==
    /\ lastOp.op = "set_volume"
    /\ Truthy(current_renderer)
    /\ Len(calls) = 1
    /\ calls[1].m = "SetVolume"
    /\ calls[1].outcome = "raise"
    /\ result = "False"

----------------------------------------------------------------------------
(* Properties of the SOAP transport *)

IsPost(ev) == ev.e = "POST"

\* the POST attempts of the invocation, in order
Posts == IF soap = NoneV THEN <<>> ELSE SelectSeq(soap.wire, IsPost)

IsErrorStatus(resp) == resp.kind = "status" /\ resp.code >= 400 /\ resp.code < 600

PostFailed(resp) == resp.kind = "exc" \/ IsErrorStatus(resp)

CauseOf(resp) == IF resp.kind = "exc"
                 THEN [type |-> resp.type, status |-> 0]
                 ELSE [type |-> "HTTPError", status |-> resp.code]

\* C7: a SOAP command whose POST fails on every attempt makes exactly 3 POST
\* attempts and then fails with the cause of the last attempt.
C7_RetryExhaustion ==
    (/\ Len(Posts) >= 1
     /\ \A i \in 1..Len(Posts) : PostFailed(Posts[i].resp))
    => /\ Len(Posts) = 3
       /\ \A i \in 1..3 : Posts[i].attempt = i
       /\ soap.outcome = "raise"
       /\ soap.error = CauseOf(Posts[3].resp)

\* three failed attempts with different causes; the last one is reported
C7_Witness ==
    /\ Len(Posts) = 3
    /\ Posts[1].resp = Exc("Timeout")
    /\ Posts[2].resp = Status(500)
    /\ Posts[3].resp = Exc("ConnectionError")
    /\ soap.outcome = "raise"
    /\ soap.error.type = "ConnectionError"

IsNon2xx(resp) == resp.kind = "status" /\ (resp.code < 200 \/ resp.code >= 300)

\* C8 as stated: a POST attempt answered with a non-2xx status is the last
\* attempt of the command, and the command fails.
C8_RejectionNotRetried ==
    \A i \in 1..Len(Posts) :
        IsNon2xx(Posts[i].resp) => (i = Len(Posts) /\ soap.outcome = "raise")

\* C8 as amended: a POST attempt answered with a 4xx or 5xx status is retried
\* like any failed attempt, and the rejection is surfaced (as HTTPError with
\* that status) only when it is the answer to the third attempt; any other
\* status (1xx, 3xx included) raises nothing and ends the command as a success.
C8_HttpErrorRetried ==
    \A i \in 1..Len(Posts) :
        /\ IsErrorStatus(Posts[i].resp) =>
               IF i < 3
               THEN Len(Posts) > i /\ Posts[i + 1].attempt = i + 1
               ELSE /\ soap.outcome = "raise"
                    /\ soap.error = [type |-> "HTTPError", status |-> Posts[i].resp.code]
        /\ (IsNon2xx(Posts[i].resp) /\ ~IsErrorStatus(Posts[i].resp)) =>
               (i = Len(Posts) /\ soap.outcome = "ok")

\* a first attempt rejected with status 500, a second attempt that succeeds
C8_Witness ==
    /\ Len(Posts) = 2
    /\ Posts[1].resp = Status(500)
    /\ Posts[2].resp = Status(200)
    /\ soap.outcome = "ok"

IsAuthorityProbe(ev) ==
    ev.e = "HEAD" /\ ev.url = base_url(control_url(soap.svc))

\* C9: the first POST of a SOAP command is preceded by a HEAD probe of the
\* authority of the control URL, and after a failed probe the command fails
\* with no POST attempt.
C9_ProbeBeforePost ==
    soap # NoneV =>
        /\ \A i \in 1..Len(soap.wire) :
              IsPost(soap.wire[i]) =>
                  \E j \in 1..(i - 1) : IsAuthorityProbe(soap.wire[j])
        /\ \A j \in 1..Len(soap.wire) :
              (IsAuthorityProbe(soap.wire[j])
               /\ ~(soap.wire[j].resp = Status(200)))
              => (Len(Posts) = 0 /\ soap.outcome = "raise")

\* the scheme of a URI: the text before the first ":", in lower case
SchemeOf(uri) ==
    IF \E i \in 1..Len(uri) : uri[i] = ":"
    THEN LET i == CHOOSE k \in 1..Len(uri) :
                      uri[k] = ":" /\ \A j \in 1..(k - 1) : uri[j] # ":"
         IN Lower(SubSeq(uri, 1, i - 1))
    ELSE <<>>

\* C10: SetAVTransportURI with a URI whose scheme is neither http nor https
\* fails with an invalid-input error and sends nothing: no probe of the URI,
\* no probe of the renderer, no POST.
C10_BadSchemeNoNetwork ==
    (/\ soap # NoneV
     /\ soap.method = "SetAVTransportURI"
     /\ SchemeOf(soap.uri) \notin {<<"h","t","t","p">>, <<"h","t","t","p","s">>})
    => /\ soap.wire = <<>>
       /\ soap.outcome = "raise"
       /\ soap.error.type = "ValueError"

\* SetAVTransportURI("ftp://x") raised without a request
C10_Witness ==
    /\ soap # NoneV
    /\ soap.method = "SetAVTransportURI"
    /\ soap.uri = Uri_ftp
    /\ soap.wire = <<>>
    /\ soap.outcome = "raise"

----------------------------------------------------------------------------
(* Volume of the renderer *)

\* RenderingControlService.SetVolume: the params dict it hands to
\* _send_command, from which the SOAP body is written (one element per key,
\* in this order)
SetVolume_params(InstanceID, Channel, DesiredVolume) ==
    << <<"InstanceID", InstanceID>>, <<"Channel", Channel>>,
       <<"DesiredVolume", DesiredVolume>> >>

\* the params of the request a recorded SetVolume call puts on the wire
WireParams(call) ==
    SetVolume_params(call.InstanceID, call.Channel, call.DesiredVolume)

Clamped(v) == IF v < 0 THEN 0 ELSE IF v > 100 THEN 100 ELSE v

\* C11: set_volume(v) on a bound renderer transmits one SetVolume with
\* InstanceID 0, channel "Master" and DesiredVolume = max(0, min(100, v)); a
\* call with -10 (150) gives the same request and the same result as a call
\* with 0 (100).
C11_VolumeClamped ==
    /\ lastOp.op = "set_volume" =>
          /\ (Truthy(current_renderer) /\ Truthy(rendering_control)
                 /\ HasMethod(rendering_control, "SetVolume"))
               => Len(calls) = 1
          /\ \A i \in 1..Len(calls) :
                /\ calls[i].m = "SetVolume"
                /\ WireParams(calls[i]) =
                      SetVolume_params(0, "Master", Clamped(lastOp.arg))
    /\ \A o \in Outcomes :
          /\ set_volume(-10, current_renderer, rendering_control, o)
               = set_volume(0, current_renderer, rendering_control, o)
          /\ set_volume(150, current_renderer, rendering_control, o)
               = set_volume(100, current_renderer, rendering_control, o)

\* set_volume(150) on a renderer bound to the service class transmitted 100
C11_Witness ==
    /\ lastOp = [op |-> "set_volume", arg |-> 150]
    /\ rendering_control.tag = "RenderingControlService"
    /\ Len(calls) = 1
    /\ calls[1].DesiredVolume = 100
    /\ result = "True"

----------------------------------------------------------------------------
(* Properties of discovery *)

IsRendererType(d) ==
    d.device_type # NoneV /\ Contains(Lower(d.device_type.s), mediarenderer)

IsServerType(d) ==
    d.device_type # NoneV /\ Contains(Lower(d.device_type.s), mediaserver)

\* the elements of seq at the indices in S, in the order of seq
RECURSIVE Pick(_, _, _)
Pick(seq, S, i) ==
    IF i > Len(seq) THEN <<>>
    ELSE (IF i \in S THEN <<seq[i]>> ELSE <<>>) \o Pick(seq, S, i + 1)

\* the sweep of the last call returned devices and all of them were classified
SweepClassified ==
    /\ discovery.sweep # NoneV
    /\ discovery.sweep.kind = "ok"
    /\ \A i \in 1..Len(discovery.sweep.devices) :
          discovery.sweep.devices[i].device_type # NoneV

SweepFailed ==
    /\ discovery.sweep # NoneV
    /\ \/ discovery.sweep.kind = "raise"
       \/ \E i \in 1..Len(discovery.sweep.devices) :
             discovery.sweep.devices[i].device_type = NoneV

\* C13: after a failed sweep discover_devices has returned the empty list and
\* the server and renderer lists of the object are empty.
C13_FailedSweepYieldsNothing ==
    SweepFailed =>
        /\ discovery.ret = <<>>
        /\ get_media_servers(discovery) = <<>>
        /\ get_media_renderers(discovery) = <<>>

----------------------------------------------------------------------------
(* Properties of the container listing *)

\* a listing that found the ContentDirectory service, got a DIDL-Lite document
\* for the children and built an entry for every item it lists
BrowseCompleted ==
    /\ browsing # NoneV
    /\ browsing.has_content_directory
    /\ browsing.children.kind = "didl"
    /\ \A i \in 1..Len(browsing.children.elements) :
          LET e == browsing.children.elements[i]
          IN (e.el = "item" /\ e.title # NoneV /\ e.title.ns = "didl"
                /\ e.res # NoneV)
             => Len(SplitOn(e.res.protocolInfo, ":")) >= 3

\* the parentID the metadata call reported: that of the first container of
\* its document; NoneV when the call or its parsing failed or reported none
ReportedParentID ==
    IF browsing.metadata.kind # "didl" THEN NoneV
    ELSE LET cs == SelectSeq(browsing.metadata.elements,
                             LAMBDA e : e.el = "container")
         IN IF cs = <<>> THEN NoneV ELSE cs[1].parentID

MetadataCalls ==
    SelectSeq(browsing.log, LAMBDA c : c.BrowseFlag = "BrowseMetadata")

LacksTitleOrRes(e) == e.el = "item" /\ (e.title = NoneV \/ e.res = NoneV)

\* C15: an item without a res child or without a title has no entry in the
\* list, and the list is the one the same response without these items gives.
C15_IncompleteItemsSkipped ==
    (browsing # NoneV /\ browsing.children.kind = "didl") =>
        /\ \A i \in 1..Len(browsing.children.elements) :
              LacksTitleOrRes(browsing.children.elements[i]) =>
                  \A k \in 1..Len(browsing.ret) :
                      browsing.ret[k].is_parent
                          \/ browsing.ret[k].id # browsing.children.elements[i].id
        /\ browsing.ret =
              DD_browse_media_server(
                  browsing.has_content_directory, browsing.object_id,
                  Didl(SelectSeq(browsing.children.elements,
                                 LAMBDA e : ~LacksTitleOrRes(e))),
                  browsing.metadata).ret

\* an item without res next to a titled container: the container is listed
C15_Witness ==
    /\ BrowseCompleted
    /\ browsing.object_id = "0"
    /\ Len(browsing.children.elements) = 2
    /\ browsing.children.elements[1].el = "item"
    /\ browsing.children.elements[1].title # NoneV
    /\ browsing.children.elements[1].res = NoneV
    /\ browsing.children.elements[2].el = "container"
    /\ Len(browsing.ret) = 1
    /\ browsing.ret[1].id = browsing.children.elements[2].id

\* the ids of the entries after the parent entry
ListedIds ==
    LET es == SelectSeq(browsing.ret, LAMBDA x : ~x.is_parent)
    IN [i \in 1..Len(es) |-> es[i].id]

\* C16: the entries after the parent entry are in the order in which their
\* elements stand in the response.
C16_DeviceOrder ==
    BrowseCompleted =>
        LET kept == SelectSeq(browsing.children.elements,
                        LAMBDA e : \E k \in 1..Len(ListedIds) : ListedIds[k] = e.id)
        IN ListedIds = [i \in 1..Len(kept) |-> kept[i].id]

----------------------------------------------------------------------------
(* Properties of the server selection *)

\* the device type the fetched description reports (NoneV: none), with
\* MediaServer:1 standing for a deviceType element that is missing
ReportedType(resp) ==
    IF resp.kind # "device" THEN NoneV
    ELSE IF resp.deviceType = Absent THEN Str(Default_device_type)
    ELSE resp.deviceType

IsServerTypeText(t) ==
    /\ t # NoneV
    /\ \/ Contains(Lower(t.s), mediaserver)
       \/ Contains(Lower(t.s), contentdirectory)

C18_SelectedServerIsArgument ==
    /\ (lastOp.op = "set_server" /\ result = "True") =>
          current_server = lastOp.arg
    /\ (lastOp.op = "browse_media_server" /\ Truthy(current_server)) =>
          /\ Len(calls) >= 1
          /\ \A i \in 1..Len(calls) :
                /\ calls[i].on = current_server.service
                /\ calls[i].ObjectID = (IF lastOp.arg.given
                                        THEN lastOp.arg.object_id ELSE "0")

\* the control URL of the fallback: the Rygel path when the location contains
\* "rygel", else the generic path, on scheme://host:port of the location
FallbackControlUrl(location) ==
    IF Contains(Lower(location), rygel)
    THEN base_url(location) \o Rygel_path
    ELSE base_url(location) \o ContentDirectory_path

\* C19: set_server on a device with a location takes the controlURL of the
\* fetched description; when the fetch fails or the description has no such
\* service the server is selected with the fallback control URL.
C19_ControlUrlResolution ==
    (lastOp.op = "set_server" /\ lastOp.arg.location # <<>>) =>
        LET resp == lastOp.description
        IN /\ (resp.kind = "device" /\ resp.controlURL \notin {Absent, NoneV}
                 /\ result = "True") =>
                 current_server.service.control_url
                     = base_url(lastOp.arg.location) \o resp.controlURL.s
           /\ (resp.kind = "device" /\ resp.controlURL = Absent
                 /\ result = "True") =>
                 current_server.service.control_url
                     = FallbackControlUrl(lastOp.arg.location)
           /\ resp.kind = "raise" =>
                 /\ result = "True"
                 /\ current_server.service.control_url
                       = FallbackControlUrl(lastOp.arg.location)

----------------------------------------------------------------------------
(* Properties of the Yamaha volume *)

\* C20: for a percent p in 0..100 the Val set_volume(p) transmits is in
\* -800..0, and the volume get_status reports for that Val is within 1 of p.
C20_VolumeRoundTrip ==
    (/\ receiver_call # NoneV
     /\ receiver_call.method = "set_volume"
     /\ receiver_call.volume \in 0..100)
    => /\ receiver_call.Val \in (0 - 800)..0
       /\ Abs(Yamaha_get_status(receiver_call.Val).volume - receiver_call.volume) <= 1

\* a level that does not come back as itself: 57 is sent as -344, which
\* get_status reports as 56
C20_Witness ==
    /\ receiver_call # NoneV
    /\ receiver_call.method = "set_volume"
    /\ receiver_call.volume = 57
    /\ receiver_call.Val = 0 - 344
    /\ Yamaha_get_status(receiver_call.Val).volume = 56

----------------------------------------------------------------------------
(* Properties of the receiver controller *)

YamahaMethods == {"get_status", "set_power", "set_volume", "set_input",
                  "set_mute", "get_input_list"}

Calling(methods) == receiver_call # NoneV /\ receiver_call.method \in methods

\* C21: every volume handed to a caller is a percent in 0..100 (in the status
\* of get_status and in the result of get_media_info), and the Val set_volume
\* transmits is in -800..0.
C21_VolumeNormalized ==
    /\ (Calling({"get_status"}) /\ ~receiver_call.blocked
            /\ "volume" \in receiver_call.ret.keys)
       => receiver_call.ret.volume \in 0..100
    /\ (Calling({"get_media_info"}) /\ receiver_call.ret # NoneV)
       => /\ receiver_call.ret.volume.tag = "numeral"
          /\ receiver_call.ret.volume.n \in 0..100
    /\ Calling({"set_volume"}) => receiver_call.Val \in (0 - 800)..0

\* the texts of the Item elements of the reply, None for a reply that is no
\* document
ReportedItems ==
    LET post == receiver_call.post
    IN IF post.kind = "response" /\ post.code = 200 /\ post.body # NotXml
       THEN Return(SelectSeq(post.body.Items, LAMBDA t : t # NoneV))
       ELSE NoneV

\* C22: get_input_list on a reply that is a document returns the reported
\* items when there is one, and the static catalogue when there is none.
C22_InputListFallback ==
    (Calling({"get_input_list"}) /\ ReportedItems # NoneV)
    => receiver_call.ret = IF ReportedItems.value # <<>>
                           THEN List(ReportedItems.value)
                           ELSE List(Catalogue)

\* the post met a device-level failure and the call came back
FailedPost ==
    LET post == receiver_call.post
    IN \/ post.kind = "exc"
       \/ post.kind = "response" /\ (post.code >= 400 \/ post.body = NotXml)

C24_SinglePostReturns ==
    /\ [](Calling(YamahaMethods) => receiver_call.posts = 1)
    /\ Calling(YamahaMethods) ~> (receiver_call = NoneV)

----------------------------------------------------------------------------
(* Properties of the renderer selection: the device type *)

\* C25: set_renderer on a device with a location and of no known vendor
\* returns True and makes it current_renderer when its type is a media-renderer
\* type, and returns False when its type is another one.
C25_RendererTypeChecked ==
    (/\ lastOp.op = "set_renderer"
     /\ IsGenericDescriptor(lastOp.arg)
     /\ lastOp.arg.device_type # NoneV
     /\ lastOp.arg.location # <<>>)
    => IF IsRendererType(lastOp.arg)
       THEN result = "True" /\ current_renderer = lastOp.arg
       ELSE result = "False"

----------------------------------------------------------------------------
(* Properties of the selection under concurrency *)

\* the statements of set_renderer leave what the call as a whole leaves
StepsRefineCall ==
    (threads.pc = "idle" /\ threads.post # NoneV) => CurrentSelection = threads.post

\* C26: what a reader sees while set_renderer runs is the whole selection of
\* before the call or the whole selection the call leaves.
C26_ConsistentSnapshot ==
    threads.snap # NoneV => threads.snap \in {threads.pre, threads.post}

----------------------------------------------------------------------------
(* Properties of the transport policy *)

IsHead(ev) == ev.e = "HEAD"
IsSleep(ev) == ev.e = "SLEEP"

\* how many probes and POST attempts a wire has, and its waits in order
Profile(wire) ==
    [probes |-> Len(SelectSeq(wire, IsHead)),
     posts  |-> Len(SelectSeq(wire, IsPost)),
     waits  |-> [i \in 1..Len(SelectSeq(wire, IsSleep)) |->
                    SelectSeq(wire, IsSleep)[i].secs]]

\* C27: for the same device responses, a Browse of the ContentDirectory client
\* and a command of the AVTransport and of the RenderingControl client make
\* the same probes, POST attempts and waits.
C27_OneTransportPolicy ==
    (soap # NoneV /\ soap.method = "Browse") =>
        LET avt == send_command(AVTransportService(soap.svc.location), "Play",
                                FALSE, soap.script, <<>>)
            rc  == send_command(RenderingControlService(soap.svc.location),
                                "SetVolume", FALSE, soap.script, <<>>)
        IN /\ Profile(soap.wire) = Profile(avt.wire)
           /\ Profile(avt.wire) = Profile(rc.wire)

\* C28: the wait after failed attempt n (n = 1, 2) is retry_delay * n, and
\* there is no wait after the last attempt.
C28_LinearBackoff ==
    soap # NoneV =>
        \A i \in 1..Len(soap.wire) :
            IsSleep(soap.wire[i]) =>
                /\ i > 1 /\ IsPost(soap.wire[i - 1])
                /\ soap.wire[i - 1].attempt < max_retries
                /\ soap.wire[i].secs = retry_delay * soap.wire[i - 1].attempt
                /\ i < Len(soap.wire)

\* C29: SetAVTransportURI with an http or https URI probes the URI and then
\* enters the SOAP command whatever the probe met: the liveness probe is made,
\* the POST follows a live renderer, and the call succeeds iff a POST does.
C29_UriProbeBestEffort ==
    (/\ soap # NoneV
     /\ soap.method = "SetAVTransportURI"
     /\ ValidScheme(soap.uri))
    => /\ Len(soap.wire) >= 2
       /\ IsHead(soap.wire[1]) /\ soap.wire[1].url = soap.uri
       /\ IsAuthorityProbe(soap.wire[2])
       /\ soap.wire[2].resp = Status(200) =>
              /\ Len(Posts) >= 1
              /\ Posts[1].action = "SetAVTransportURI"
              /\ soap.outcome = "ok" <=> ~PostFailed(Posts[Len(Posts)].resp)

\* the probe of the URI met a connection error and the call succeeded
C29_Witness ==
    /\ soap # NoneV
    /\ soap.method = "SetAVTransportURI"
    /\ Len(soap.wire) >= 1
    /\ soap.wire[1].resp = Exc("ConnectionError")
    /\ Len(Posts) = 1
    /\ soap.outcome = "ok"

----------------------------------------------------------------------------
(* Properties of a failed Browse *)

\* the reply to the Browse of the children is a failure: an exception of the
\* request, an HTTP error status, or a body that is no XML document
ChildrenBrowseFailed ==
    LET reply == browsing.replies[1]
    IN PostFailed(reply.resp) \/ reply.body = NotXml

\* C30: a Browse that fails gives an empty DIDL-Lite document and raises
\* nothing; for a children document without containers and items the listing
\* of a container other than "0" is the parent entry alone, and the listing
\* of "0" is empty.
C30_FailedBrowseIsEmptyFolder ==
    (browsing # NoneV /\ "replies" \in DOMAIN browsing) =>
        /\ ChildrenBrowseFailed => browsing.children = Didl(<<>>)
        /\ browsing.children = Didl(<<>>) =>
              IF browsing.object_id # "0"
              THEN /\ Len(browsing.ret) = 1
                   /\ browsing.ret[1] = ParentEntry(browsing.ret[1].id)
              ELSE browsing.ret = <<>>

\* the Browse of the children of "1" met a timeout: the parent entry alone
C30_Witness ==
    /\ browsing # NoneV /\ "replies" \in DOMAIN browsing
    /\ browsing.object_id = "1"
    /\ browsing.replies[1].resp = Exc("Timeout")
    /\ Len(browsing.ret) = 1
    /\ browsing.ret[1].is_parent

----------------------------------------------------------------------------
(* Properties of the items of a listing *)

\* C31: every item of the response that has a title and a res child has an
\* entry in the list, and the type of the entry is the third field of the
\* protocolInfo of its res when there is one; a protocolInfo that is absent
\* or has fewer than three fields keeps no entry from the list.
C31_EveryCompleteItemListed ==
    (/\ browsing # NoneV
     /\ browsing.has_content_directory
     /\ browsing.children.kind = "didl")
    => \A i \in 1..Len(browsing.children.elements) :
          LET e == browsing.children.elements[i]
          IN (e.el = "item" /\ Listed(e)) =>
                \E k \in 1..Len(browsing.ret) :
                    /\ ~browsing.ret[k].is_parent
                    /\ browsing.ret[k].id = e.id
                    /\ ~ItemRaises(e) =>
                          browsing.ret[k].type = SplitOn(e.res.protocolInfo, ":")[3]

----------------------------------------------------------------------------
(* Properties of the SOAP envelope *)

\* a well-formed element <name>value</name>
XmlElement(name, value) == <<"<", name, ">", value, "<", "/", name, ">">>

\* C32: the body has the action element in the namespace of the service and,
\* between its tags, one well-formed element <name>value</name> for each
\* parameter, in the order the caller gave them.
C32_WellFormedParams ==
    soap # NoneV =>
        /\ soap.body.open = <<"<", "u:", soap.action, " xmlns:u=",
                              service_type(soap.svc), ">">>
        /\ soap.body.close = <<"<", "/", "u:", soap.action, ">">>
        /\ soap.body.inner =
              Join([i \in 1..Len(soap.params) |->
                       XmlElement(soap.params[i][1], soap.params[i][2])],
                   <<"\n">>)

----------------------------------------------------------------------------
(* Properties of the Yamaha volume: the values of the conversions *)

\* C33: for a percent p in 0..100 set_volume(p) transmits p/100*800 - 800,
\* which is 8p - 800; for a Val n in -800..0 whose percent (n + 800)/800*100
\* is a whole number, get_status reports that number, (n + 800)/8.
C33_ConversionValues ==
    receiver_call # NoneV =>
        /\ (receiver_call.method = "set_volume" /\ receiver_call.volume \in 0..100)
              => receiver_call.Val = 8 * receiver_call.volume - 800
        /\ (/\ receiver_call.method = "get_status"
            /\ receiver_call.post.kind = "response"
            /\ receiver_call.post.code = 200
            /\ receiver_call.post.body # NotXml
            /\ receiver_call.post.body.main_zone
            /\ receiver_call.post.body.Val.tag = "numeral"
            /\ receiver_call.post.body.Val.n \in (0 - 800)..0
            /\ (receiver_call.post.body.Val.n + 800) % 8 = 0)
              => receiver_call.ret.volume = (receiver_call.post.body.Val.n + 800) \div 8

----------------------------------------------------------------------------
(* Properties of the device lists *)

Range(seq) == {seq[i] : i \in 1..Len(seq)}

\* C34: after any sequence of sweeps every device of media_renderers and of
\* media_servers is in devices, no device is in both lists, and no two
\* entries of media_servers have the same location.
C34_ListsWithinDevices ==
    /\ Range(discovery.media_renderers) \subseteq Range(discovery.devices)
    /\ Range(discovery.media_servers) \subseteq Range(discovery.devices)
    /\ Range(discovery.media_renderers) \cap Range(discovery.media_servers) = {}
    /\ \A i, j \in 1..Len(discovery.media_servers) :
          discovery.media_servers[i].location = discovery.media_servers[j].location
              => i = j

\* upnpclient.discover() raised after a sweep that had found a renderer and a
\* server: the lists and devices are those of the earlier sweep
C34_Witness ==
    /\ discovery.sweep # NoneV
    /\ discovery.sweep.kind = "raise"
    /\ Len(discovery.devices) = 2
    /\ Len(discovery.media_renderers) = 1
    /\ Len(discovery.media_servers) = 1

----------------------------------------------------------------------------
(* Properties of the retry loop *)

Is2xx(resp) == resp.kind = "status" /\ resp.code >= 200 /\ resp.code < 300

\* C35: within one command no POST and no backoff wait follows a POST that
\* was answered with a 2xx status, a command that succeeds has made as many
\* POSTs as the number of its successful attempt, and no command makes more
\* than 3 POSTs.
C35_StopsAtFirstSuccess ==
    soap # NoneV =>
        /\ \A i \in 1..Len(soap.wire) :
              (IsPost(soap.wire[i]) /\ Is2xx(soap.wire[i].resp)) =>
                  /\ soap.outcome = "ok"
                  /\ \A j \in (i + 1)..Len(soap.wire) :
                        ~IsPost(soap.wire[j]) /\ ~IsSleep(soap.wire[j])
        /\ \A i \in 1..Len(Posts) : Posts[i].attempt = i
        /\ (soap.outcome = "ok" /\ Len(Posts) >= 1) =>
              /\ ~PostFailed(Posts[Len(Posts)].resp)
              /\ \A i \in 1..(Len(Posts) - 1) : PostFailed(Posts[i].resp)
        /\ Len(Posts) <= 3

\* a command answered with 200 on its second attempt: two POSTs, one wait
C35_Witness ==
    /\ soap # NoneV
    /\ soap.outcome = "ok"
    /\ Len(Posts) = 2
    /\ Posts[1].resp = Exc("Timeout")
    /\ Posts[2].resp = Status(200)
    /\ Len(SelectSeq(soap.wire, IsSleep)) = 1

----------------------------------------------------------------------------
(* Properties of play: the order of its two calls *)

IsCall(c, name) == c.m = name

\* C36: a play(url) whose SetAVTransportURI failed -- the call raised, or the
\* client has no such method -- has issued no Play and has returned False.
C36_NoPlayAfterFailedSetUri ==
    (/\ lastOp.op = "play"
     /\ Truthy(lastOp.arg)
     /\ Truthy(current_renderer) /\ Truthy(av_transport)
     /\ ~\E i \in 1..Len(calls) :
            IsCall(calls[i], "SetAVTransportURI") /\ calls[i].outcome # "raise")
    => /\ result = "False"
       /\ \A i \in 1..Len(calls) : ~IsCall(calls[i], "Play")

\* play(url) on a client whose SetAVTransportURI raised: that call alone
C36_Witness ==
    /\ lastOp.op = "play"
    /\ Truthy(lastOp.arg)
    /\ Len(calls) = 1
    /\ IsCall(calls[1], "SetAVTransportURI")
    /\ calls[1].outcome = "raise"
    /\ result = "False"

----------------------------------------------------------------------------
(* Properties of the two selections *)

\* C37: a set_server call leaves current_renderer, the two service clients
\* and the receiver as they were, and leaves current_server as it was when it
\* returns False; a set_renderer call leaves current_server as it was.
C37_SelectionsIndependent ==
    [][ /\ lastOp'.op = "set_server" =>
              /\ current_renderer' = current_renderer
              /\ av_transport' = av_transport
              /\ rendering_control' = rendering_control
              /\ receiver' = receiver
              /\ result' = "False" => current_server' = current_server
        /\ lastOp'.op = "set_renderer" => current_server' = current_server ]_vars

\* a set_server that failed with a server and a Yamaha receiver selected
C37_Witness ==
    /\ lastOp.op = "set_server"
    /\ result = "False"
    /\ current_server # NoneV
    /\ receiver # NoneV

----------------------------------------------------------------------------
(* Properties of the discovery thread *)

\* the threads that have not ended
AliveWorkers == {i \in 1..Len(ui.workers) : ui.workers[i] # "done"}

\* a discovery request was made in this step
Requested ==
    Len(ui'.workers) + ui'.refused = Len(ui.workers) + ui.refused + 1

\* C38: at most one discovery thread is alive at any time; a request made
\* while one is alive starts no thread and no sweep, and a request made when
\* none is alive starts exactly one thread.
C38_OneDiscoveryWorker ==
    /\ [](Cardinality(AliveWorkers) <= 1)
    /\ [][ Requested =>
              IF AliveWorkers # {}
              THEN /\ ui'.workers = ui.workers
                   /\ discovery' = discovery
              ELSE /\ Len(ui'.workers) = Len(ui.workers) + 1
                   /\ ui'.workers[Len(ui'.workers)] = "started"
                   /\ ui'.refused = ui.refused ]_vars

\* a request was refused while the first thread ran, and a request made after
\* that thread had ended started the second
C38_Witness ==
    /\ ui.refused = 1
    /\ Len(ui.workers) = 2
    /\ ui.workers[1] = "done"
    /\ ui.workers[2] = "started"

====
